---- MODULE Spec2Model ----
(***************************************************************************)
(* uni_service: the Uniform Service Manager (UniServiceManager) in front   *)
(* of a platform backend (trait ServiceManager).                           *)
(*                                                                         *)
(* One controller drives one manager.  install / uninstall / start / stop  *)
(* are single calls: a status() query followed by the gated backend call.  *)
(* wait_for_status is a loop of polls and sleeps, and the platform moves   *)
(* on its own between its steps.  Time is counted in milliseconds.         *)
(*                                                                         *)
(* Spec         the gated calls, made in any order                         *)
(* WaitSpec     wait_for_status, with any target and timeout; FairWaitSpec *)
(*              adds that the loop keeps running                           *)
(* ScenarioSpec the controller runs one of the call sequences of Scripts   *)
(***************************************************************************)
EXTENDS Integers, Sequences, FiniteSets, TLC

\* ------------------------------------------------------------------ bounds
\* timeouts handed to wait_for_status: 0, 100, ..., 100 * MaxTimeoutSteps ms
MaxTimeoutSteps == 2
\* a status() call (a child process) takes 0, 50, ..., 50 * MaxStatusSteps ms
MaxStatusSteps == 1
\* thread::sleep overshoots by 0, 50, ..., 50 * MaxJitterSteps ms
MaxJitterSteps == 1

\* thread::sleep(Duration::from_millis(50))
PollInterval == 50

Timeouts == {100 * k : k \in 0..MaxTimeoutSteps}
StatusDurations == {50 * k : k \in 0..MaxStatusSteps}
SleepDurations == {PollInterval + 50 * k : k \in 0..MaxJitterSteps}

\* ------------------------------------------------------------- data model
ServiceStatus ==
    {"NotInstalled", "Stopped", "StartPending", "StopPending", "Running",
     "ContinuePending", "PausePending", "Paused"}

\* the capability bits install() reads
CUSTOM_USER_REQUIRES_PASSWORD == "CUSTOM_USER_REQUIRES_PASSWORD"
SUPPORTS_CUSTOM_GROUP == "SUPPORTS_CUSTOM_GROUP"
RESTART_ON_FAILURE_REQUIRES_AUTOSTART == "RESTART_ON_FAILURE_REQUIRES_AUTOSTART"

ServiceCapabilities ==
    SUBSET {CUSTOM_USER_REQUIRES_PASSWORD, SUPPORTS_CUSTOM_GROUP,
            RESTART_ON_FAILURE_REQUIRES_AUTOSTART}

\* a ServiceSpec, as far as install() and the backends read it: for the
\* Option fields TRUE is Some(_), FALSE is None
ServiceSpec ==
    [user : BOOLEAN, password : BOOLEAN, group : BOOLEAN,
     autostart : BOOLEAN, restart_on_failure : BOOLEAN]

\* capabilities() of the two backends, as far as install() reads them
ScCapabilities == {CUSTOM_USER_REQUIRES_PASSWORD}
SystemdCapabilities == {SUPPORTS_CUSTOM_GROUP}

\* UniResult values: a kind and its payload ("-" when it has none)
Ok == [kind |-> "Ok", arg |-> "-"]
OkStatus(s) == [kind |-> "OkStatus", arg |-> s]
Err(k) == [kind |-> k, arg |-> "-"]
AlreadyInstalled == [kind |-> "AlreadyInstalled", arg |-> "-"]
BadServiceSpec == [kind |-> "BadServiceSpec", arg |-> "-"]
WrongState(s) == [kind |-> "WrongState", arg |-> s]
Timeout(s) == [kind |-> "Timeout", arg |-> s]
TimeoutError(k) == [kind |-> "TimeoutError", arg |-> k]

\* the decision of a gate to call the backend; never a returned value
Dispatch == [kind |-> "Dispatch", arg |-> "-"]
\* no status() query was made
NoResult == [kind |-> "None", arg |-> "-"]

\* error kinds a backend call can fail with (process-invocation shim)
BackendErrKinds == {"IoError", "BadExitStatus"}

VARIABLES
    is_user_service,   \* ServiceManager::is_user_service() of the manager
    capabilities,      \* ServiceManager::capabilities() of the manager
    platform,          \* the state of the service in the platform
    pc,                \* the controller: "idle", or inside wait_for_status
                       \* about to "poll" or to "sleep"
    desired_status,    \* wait_for_status: argument
    timeout,           \* wait_for_status: argument (ms)
    elapsed,           \* wait_for_status: start_time.elapsed() (ms)
    slept,             \* wait_for_status: length of the latest sleep (ms)
    last,              \* record of the latest call, once it has returned
    script,            \* the calls the controller has yet to make (scenarios)
    trace,             \* the records of the calls of the script made so far
    query,             \* a backend's status(): the child process it ran and
                       \* the value it returned
    step,              \* the lifecycle sequence: the number of its calls that
                       \* have returned Ok, or -1 once one has failed
    host,              \* what a backend keeps of the service on the machine:
                       \* its directory, its file, its registration
    round,             \* the backend calls made on the host: the host before
                       \* the latest install, and how far the round has come
    app,               \* BaseService: which of service_fn, receiver and handle
                       \* are Some, and whether stop() is inside handle.join()
    thread,            \* the worker thread and the shutdown channel it reads
    called,            \* the latest call of start() or stop() on the BaseService
    driver,            \* run_service in console mode: where it is, whether the
                       \* interrupt handler is set, what the handler has sent
    scm,               \* the process under the SCM dispatcher: the start_service
                       \* calls, SERVICE_APP, service_main and what it reported
    built              \* the ServiceSpec a caller builds, and the latest call of
                       \* a builder method or of UniServiceManager::new

vars ==
    <<is_user_service, capabilities, platform, pc, desired_status, timeout,
      elapsed, slept, last, script, trace, query, step, host, round, app,
      thread, called, driver, scm, built>>

config == <<is_user_service, capabilities, built>>
waiting == <<pc, desired_status, timeout, elapsed, slept>>
\* the UniServiceManager, its controller and the platform behind it
managed == <<config, platform, waiting, last, script, trace>>
\* what lies outside them
\* the service runtime: the workload and what drives it
runtime == <<app, thread, called, driver, scm>>
others == <<query, step, host, round, runtime>>

\* -------------------------------------------------------- call records
NoCall ==
    [op |-> "none", arg |-> "-", spec |-> "-", observed |-> NoResult,
     result |-> NoResult, dispatched |-> FALSE, timeout |-> 0, elapsed |-> 0,
     slept |-> 0, took |-> 0]

Call(op, spec, observed, result, dispatched) ==
    [op |-> op, arg |-> "-", spec |-> spec, observed |-> observed,
     result |-> result, dispatched |-> dispatched, timeout |-> 0,
     elapsed |-> 0, slept |-> 0, took |-> 0]

Waited(desired, t, observed, result, e, s, took) ==
    [op |-> "wait", arg |-> desired, spec |-> "-", observed |-> observed,
     result |-> result, dispatched |-> FALSE, timeout |-> t, elapsed |-> e,
     slept |-> s, took |-> took]

\* ------------------------------------------------------ platform backend
\* ServiceManager::status(): the platform's answer for the service, or the
\* failure of the query itself.  NotInstalled is a status, not an error.
status(p) == {OkStatus(p)} \cup {Err(k) : k \in BackendErrKinds}

\* ServiceManager::install(spec): the service file is written (IoError when
\* that fails, nothing installed), then the service is enabled when autostart
\* is asked for (on failure the error is returned and the file stays).
backend_install(spec, p) ==
    {[result |-> Err("IoError"), platform |-> p]}
        \cup (IF spec.autostart
              THEN {[result |-> Err("BadExitStatus"), platform |-> "Stopped"]}
              ELSE {})
        \cup {[result |-> Ok, platform |-> "Stopped"]}

\* ServiceManager::uninstall(): disable, then remove the service file
backend_uninstall(p) ==
    {[result |-> Err(k), platform |-> p] : k \in BackendErrKinds}
        \cup {[result |-> Ok, platform |-> "NotInstalled"]}

\* ServiceManager::start(): the platform is asked to start the service,
\* which is then starting or already running
backend_start(p) ==
    {[result |-> Err(k), platform |-> p] : k \in BackendErrKinds}
        \cup {[result |-> Ok, platform |-> q] : q \in {"StartPending", "Running"}}

\* ServiceManager::stop(): the platform is asked to stop the service
backend_stop(p) ==
    {[result |-> Err(k), platform |-> p] : k \in BackendErrKinds}
        \cup {[result |-> Ok, platform |-> q] : q \in {"StopPending", "Stopped"}}

\* what the platform does by itself: pending states settle, a running
\* service may exit
PlatformMoves ==
    {<<"StartPending", "Running">>, <<"StartPending", "Stopped">>,
     <<"StopPending", "Stopped">>, <<"ContinuePending", "Running">>,
     <<"PausePending", "Paused">>, <<"Running", "Stopped">>}

\* ----------------------------------- backends: status() by child process
\* the exit codes the backends tell apart, one they do not (1), and no code
\* at all (-1: the child was ended by a signal)
ExitCodes == {-1, 0, 1, 2, 3, 4, 5, 113, 1060, 1073}

\* what the tool of a backend prints on success, as far as status() reads
\* it.  sc query: the STATE token (the seven states, one the backend does
\* not know, and an output without a STATE line); launchctl print: whether
\* "state = running" is in it; systemctl: not read
Outputs(backend) ==
    CASE backend = "sc" ->
             {"RUNNING", "STOPPED", "START_PENDING", "STOP_PENDING",
              "CONTINUE_PENDING", "PAUSE_PENDING", "PAUSED", "UNKNOWN",
              "no STATE line"}
      [] backend = "launchd" -> {"state = running", "state = not running"}
      [] backend = "systemd" -> {"-"}

NoChild == [spawned |-> FALSE, code |-> -1, utf8 |-> TRUE, output |-> "-"]

\* a run of the platform's tool: could it be spawned, its exit code, whether
\* the stream the shim decodes (stdout on success, stderr otherwise) is
\* UTF-8, and what it printed on success
Children(backend) ==
    {NoChild}
        \cup {[spawned |-> TRUE, code |-> 0, utf8 |-> FALSE, output |-> "-"]}
        \cup {[spawned |-> TRUE, code |-> 0, utf8 |-> TRUE, output |-> o] :
                  o \in Outputs(backend)}
        \cup {[spawned |-> TRUE, code |-> c, utf8 |-> u, output |-> "-"] :
                  c \in ExitCodes \ {0}, u \in BOOLEAN}

\* Ok(String) of a shim
OkOutput(o) == [kind |-> "OkOutput", arg |-> o]

\* SystemDServiceManager::system_ctl: Ok(()) on success, stdout unread; the
\* BadExitStatus error carries c.code
system_ctl(c) ==
    IF ~c.spawned THEN Err("IoError")
    ELSE IF c.code = 0 THEN Ok
    ELSE IF ~c.utf8 THEN Err("BadUtf8")
    ELSE Err("BadExitStatus")

\* LaunchDServiceManager::launch_ctl
launch_ctl(c) ==
    IF ~c.spawned THEN Err("Unknown")
    ELSE IF c.code = 0
    THEN IF c.utf8 THEN OkOutput(c.output) ELSE Err("BadUtf8")
    ELSE IF ~c.utf8 THEN Err("BadUtf8")
    ELSE Err("BadExitStatus")

\* WinServiceManager::sc
sc(c) ==
    IF ~c.spawned THEN Err("IoError")
    ELSE IF c.code = 0
    THEN IF c.utf8 THEN OkOutput(c.output) ELSE Err("BadUtf8")
    ELSE IF ~c.utf8 THEN Err("BadUtf8")
    ELSE Err("BadExitStatus")

\* faulty variant: exit code 4 is not told apart from the other failures
systemd_status_without_not_installed(c) ==
    LET r == system_ctl(c)
    IN  IF r = Ok THEN OkStatus("Running")
        ELSE IF r.kind = "BadExitStatus" /\ c.code = 3 THEN OkStatus("Stopped")
        ELSE r

\* SystemDServiceManager::status
systemd_status(c) ==
    LET r == system_ctl(c)
    IN  IF r = Ok THEN OkStatus("Running")
        ELSE IF r.kind = "BadExitStatus"
        THEN IF c.code = 3 THEN OkStatus("Stopped")
             ELSE IF c.code = 4 THEN OkStatus("NotInstalled")
             ELSE r
        ELSE r

\* LaunchDServiceManager::status
launchd_status(c) ==
    LET r == launch_ctl(c)
    IN  IF r.kind = "OkOutput"
        THEN IF r.arg = "state = running" THEN OkStatus("Running")
             ELSE OkStatus("Stopped")
        ELSE IF r.kind = "BadExitStatus" /\ c.code = 113
        THEN OkStatus("NotInstalled")
        ELSE r

\* WinServiceManager::raw_status: the match on the STATE token
sc_state(token) ==
    CASE token = "RUNNING" -> OkStatus("Running")
      [] token = "STOPPED" -> OkStatus("Stopped")
      [] token = "START_PENDING" -> OkStatus("StartPending")
      [] token = "STOP_PENDING" -> OkStatus("StopPending")
      [] token = "CONTINUE_PENDING" -> OkStatus("ContinuePending")
      [] token = "PAUSE_PENDING" -> OkStatus("PausePending")
      [] token = "PAUSED" -> OkStatus("Paused")
      [] OTHER -> Err("PlatformError")

\* WinServiceManager::raw_status
raw_status(c) ==
    LET r == sc(c)
    IN  IF r.kind = "OkOutput" THEN sc_state(r.arg)
        ELSE IF r.kind = "BadExitStatus"
        THEN CASE c.code = 2 -> Err("ServicePathNotFound")
               [] c.code = 5 -> Err("AccessDenied")
               [] c.code = 1060 -> OkStatus("NotInstalled")
               [] c.code = 1073 -> Err("AlreadyInstalled")
               [] OTHER -> r
        ELSE r

\* faulty variant: the template is never asked
sc_status_without_fallback(luid, instance, template) == raw_status(instance)

\* WinServiceManager::status: the instance is queried, and for a user service
\* (luid) that has no instance yet, the template
sc_status(luid, instance, template) ==
    LET r == raw_status(instance)
    IN  IF luid /\ r = OkStatus("NotInstalled") THEN raw_status(template)
        ELSE r

\* a status() call: the tool runs it made, in order, and its result
NoQuery ==
    [backend |-> "none", luid |-> FALSE, children |-> <<>>,
     result |-> NoResult]

Queried(backend, luid, children, result) ==
    [backend |-> backend, luid |-> luid, children |-> children,
     result |-> result]

\* ------------------------------ backends: install() and uninstall()
\* the machine as a backend sees it.  user: a user service (on Windows:
\* luid is Some); dir: the service directory exists; file: the unit file or
\* plist exists; registered: the unit is enabled (systemd), bootstrapped
\* (launchd), or the service, for a user service its template, has an SCM
\* entry; instance: the SCM entry of the user-service instance <name>_<luid>
NoHost ==
    [backend |-> "none", user |-> FALSE, dir |-> FALSE, file |-> FALSE,
     registered |-> FALSE, instance |-> FALSE]

\* ran: the sc commands the latest uninstall ran, in order
NoRound ==
    [phase |-> "none", pre |-> NoHost, result |-> NoResult, ran |-> <<>>]

\* a call that failed with one of the kinds and left the host as h
Failed(kinds, h) == {[result |-> Err(k), host |-> h] : k \in kinds}

\* SystemDServiceManager::install: create_dir_all, write_file (which may
\* fail after it created the file), systemctl enable when autostart is set
systemd_install(spec, h) ==
    (IF h.user THEN Failed({"DirectoryNotFound"}, h) ELSE {})
        \cup Failed({"BadUtf8", "IoError"}, h)
        \cup Failed({"IoError"}, [h EXCEPT !.dir = TRUE])
        \cup Failed({"IoError"}, [h EXCEPT !.dir = TRUE, !.file = TRUE])
        \cup (IF spec.autostart
              THEN Failed(BackendErrKinds \cup {"BadUtf8"},
                          [h EXCEPT !.dir = TRUE, !.file = TRUE])
              ELSE {})
        \cup {[result |-> Ok,
               host |-> [h EXCEPT !.dir = TRUE, !.file = TRUE,
                                  !.registered = @ \/ spec.autostart]]}

\* faulty variant: the unit is disabled, its file is left behind
systemd_uninstall_without_remove(h) ==
    Failed(BackendErrKinds \cup {"BadUtf8"}, h)
        \cup (IF h.file
              THEN {[result |-> Ok, host |-> [h EXCEPT !.registered = FALSE]]}
              ELSE {})

\* SystemDServiceManager::uninstall: systemctl disable (which fails for a
\* unit that has no file), then remove_file
systemd_uninstall(h) ==
    Failed(BackendErrKinds \cup {"BadUtf8"}, h)
        \cup (IF h.file
              THEN Failed({"DirectoryNotFound", "IoError"},
                          [h EXCEPT !.registered = FALSE])
                       \cup {[result |-> Ok,
                              host |-> [h EXCEPT !.registered = FALSE,
                                                 !.file = FALSE]]}
              ELSE {})

\* LaunchDServiceManager::install: create_dir_all, write_file, launchctl
\* bootstrap
launchd_install(h) ==
    (IF h.user THEN Failed({"HomeDirectoryNotFound"}, h) ELSE {})
        \cup Failed({"BadUtf8", "IoError"}, h)
        \cup Failed({"IoError"}, [h EXCEPT !.dir = TRUE])
        \cup Failed({"IoError", "Unknown", "BadExitStatus", "BadUtf8"},
                    [h EXCEPT !.dir = TRUE, !.file = TRUE])
        \cup {[result |-> Ok,
               host |-> [h EXCEPT !.dir = TRUE, !.file = TRUE,
                                  !.registered = TRUE]]}

\* LaunchDServiceManager::uninstall: launchctl bootout (which fails for a
\* service that is not bootstrapped), then remove_file
launchd_uninstall(h) ==
    Failed({"HomeDirectoryNotFound", "Unknown", "BadExitStatus", "BadUtf8"}, h)
        \cup (IF h.registered
              THEN Failed({"IoError"}, [h EXCEPT !.registered = FALSE])
                       \cup (IF h.file
                             THEN {[result |-> Ok,
                                    host |-> [h EXCEPT !.registered = FALSE,
                                                       !.file = FALSE]]}
                             ELSE {})
              ELSE {})

\* WinServiceManager::install: sc create (which fails when the entry
\* exists), then the steps that can fail and leave the entry: sc description
\* when the spec has one, sc sdset for a user service, sc failure for
\* restart_on_failure
sc_install(spec, h) ==
    Failed({"IoError", "BadUtf8", "BadExitStatus"}, h)
        \cup (IF h.registered THEN {}
              ELSE Failed({"IoError", "BadUtf8", "BadExitStatus"}
                              \cup (IF h.user THEN {"BadSid"} ELSE {}),
                          [h EXCEPT !.registered = TRUE])
                       \cup {[result |-> Ok,
                              host |-> [h EXCEPT !.registered = TRUE]]})

\* faulty variant: the instance of a user service is left alone
sc_uninstall_template_only(h) ==
    {[result |-> Err(k), host |-> h, ran |-> <<"delete">>] :
         k \in {"IoError", "BadUtf8", "BadExitStatus"}}
        \cup (IF h.registered
              THEN {[result |-> Ok, host |-> [h EXCEPT !.registered = FALSE],
                     ran |-> <<"delete">>]}
              ELSE {})

\* WinServiceManager::uninstall: for a user service the instance is queried
\* (sc query <name>_<luid>) and, when it exists, deleted; then the service
\* (or template) is deleted.  ran is the sc commands of the call, in order
sc_uninstall(h) ==
    LET sc_errs == {"IoError", "BadUtf8", "BadExitStatus"}
        query_errs == sc_errs \cup {"ServicePathNotFound", "AccessDenied",
                                    "PlatformError"}
        deleted == [h EXCEPT !.instance = FALSE]
        queried == IF h.user THEN <<"query instance">> ELSE <<>>
        first == IF h.user /\ h.instance
                 THEN queried \o <<"delete instance">>
                 ELSE queried
        Ran(outcomes, cmds) ==
            {[result |-> o.result, host |-> o.host, ran |-> cmds] :
                 o \in outcomes}
    IN  (IF h.user THEN Ran(Failed(query_errs, h), queried) ELSE {})
            \cup (IF h.user /\ h.instance
                  THEN Ran(Failed(sc_errs, h), first)
                  ELSE {})
            \cup Ran(Failed(sc_errs, deleted), first \o <<"delete">>)
            \cup (IF h.registered
                  THEN {[result |-> Ok,
                         host |-> [deleted EXCEPT !.registered = FALSE],
                         ran |-> first \o <<"delete">>]}
                  ELSE {})

\* what status() reports of the host: is the service installed
installed(h) ==
    CASE h.backend = "systemd" -> h.file
      [] h.backend = "launchd" -> h.registered
      [] h.backend = "sc" -> h.registered \/ h.instance

\* ------------------------------------------------ the Workload Adapter
\* start() and stop() may each be called this many times
MaxCalls == 2

\* BaseService::new: nothing is started.  Of the Option fields TRUE is Some
NewApp ==
    [service_fn |-> TRUE, receiver |-> TRUE, handle |-> FALSE,
     joining |-> FALSE]

NoApp ==
    [service_fn |-> FALSE, receiver |-> FALSE, handle |-> FALSE,
     joining |-> FALSE]

\* the worker thread: not spawned ("none"), inside service_fn ("running"),
\* back from it with the receiver dropped ("returned"), or finished, which is
\* when JoinHandle::is_finished() turns true; the value service_fn returned,
\* or "panic"; the signals sent on the channel; the threads ever spawned
NoThread == [state |-> "none", result |-> "-", inbox |-> 0, spawned |-> 0]

NoAppCall ==
    [op |-> "none", result |-> NoResult, before |-> "-", finished |-> FALSE,
     signalled |-> FALSE, joined |-> FALSE, spawned |-> FALSE, starts |-> 0,
     stops |-> 0]

\* run_service is not running.  service_mode is the argument of the latest
\* run_service call and depth the number of run_service calls made; sent
\* are the messages the process has written to its control socket; panicked
\* is whether the thread that runs the interrupt handler has panicked
NoDriver ==
    [pc |-> "none", handler |-> FALSE, rx |-> 0, interrupts |-> 0,
     result |-> NoResult, service_mode |-> FALSE, depth |-> 0, sent |-> <<>>,
     panicked |-> FALSE]

\* applications a process hands to start_service
MaxApps == 2

\* controls the SCM sends to the registered handler
MaxControls == 2

\* a process in which start_service was not called.  owner is the application
\* in SERVICE_APP (0: not set) and taken whether service_main has taken it
\* out; callers is where each start_service call is, dispatchers the calls
\* of service_dispatcher::start; pc is where service_main is; worker is the
\* workload of the application; rx is what the shutdown channel holds;
\* reported are the statuses the SCM accepted, refused whether it refused
\* one, logged whether the refusal of Stopped was logged; reply is the
\* answer to the latest control
NoScm ==
    [owner |-> 0, taken |-> FALSE, callers |-> [i \in 1..MaxApps |-> "idle"],
     dispatchers |-> 0, pc |-> "none", registered |-> FALSE,
     worker |-> "none", stops |-> 0, rx |-> 0, controls |-> 0,
     reported |-> <<>>, refused |-> FALSE, logged |-> FALSE,
     result |-> NoResult,
     reply |-> [control |-> "-", result |-> "-", forwarded |-> FALSE]]

\* faulty variant: every control but Stop is answered NoError
event_handler_fn_accepting_all(event, connected) ==
    IF event = "Stop"
    THEN [result |-> "NoError", send |-> TRUE, forwarded |-> connected]
    ELSE [result |-> "NoError", send |-> FALSE, forwarded |-> FALSE]

\* event_handler_fn of run_service: the answer to a control, whether a
\* message is sent on shutdown_tx and whether the send succeeds, which it
\* does while the receiver is there
event_handler_fn(event, connected) ==
    CASE event = "Interrogate" ->
             [result |-> "NoError", send |-> FALSE, forwarded |-> FALSE]
      [] event = "Stop" ->
             [result |-> "NoError", send |-> TRUE, forwarded |-> connected]
      [] OTHER ->
             [result |-> "NotImplemented", send |-> FALSE,
              forwarded |-> FALSE]

\* the workload thread handle: Unstarted, Running or Joined
HandleState(a) ==
    IF a.handle \/ a.joining THEN "Running"
    ELSE IF a.receiver THEN "Unstarted"
    ELSE "Joined"

\* faulty variant: the receiver and the function are not taken, a started
\* service is started again
service_start_again(a) ==
    [result |-> Ok, app |-> [a EXCEPT !.handle = TRUE], spawn |-> TRUE]

\* faulty variant: a start() that fails drops the thread handle
service_start_dropping_handle(a) ==
    IF ~a.receiver
    THEN [result |-> Err("ReceiverNotFound"),
          app |-> [a EXCEPT !.handle = FALSE], spawn |-> FALSE]
    ELSE IF ~a.service_fn
    THEN [result |-> Err("ServiceFnNotFound"),
          app |-> [a EXCEPT !.receiver = FALSE, !.handle = FALSE],
          spawn |-> FALSE]
    ELSE [result |-> Ok,
          app |-> [a EXCEPT !.receiver = FALSE, !.service_fn = FALSE,
                            !.handle = TRUE],
          spawn |-> TRUE]

\* BaseService::start
service_start(a) ==
    IF ~a.receiver
    THEN [result |-> Err("ReceiverNotFound"), app |-> a, spawn |-> FALSE]
    ELSE IF ~a.service_fn
    THEN [result |-> Err("ServiceFnNotFound"),
          app |-> [a EXCEPT !.receiver = FALSE], spawn |-> FALSE]
    ELSE [result |-> Ok,
          app |-> [a EXCEPT !.receiver = FALSE, !.service_fn = FALSE,
                            !.handle = TRUE],
          spawn |-> TRUE]

\* faulty variant: the signal is sent first, whatever the handle is, and a
\* handle that is there is joined
service_stop_signalling_first(a, finished, connected) ==
    IF ~connected
    THEN [result |-> Err("SendError"), app |-> a, signal |-> FALSE,
          join |-> FALSE]
    ELSE IF ~a.handle
    THEN [result |-> Ok, app |-> a, signal |-> TRUE, join |-> FALSE]
    ELSE [result |-> NoResult,
          app |-> [a EXCEPT !.handle = FALSE, !.joining = TRUE],
          signal |-> TRUE, join |-> TRUE]

\* BaseService::stop up to handle.join(): finished is handle.is_finished(),
\* connected is whether the receiver of the channel is still there
service_stop(a, finished, connected) ==
    IF ~a.handle
    THEN [result |-> Err("HandleNotFound"), app |-> a, signal |-> FALSE,
          join |-> FALSE]
    ELSE IF finished
    THEN [result |-> Ok, app |-> [a EXCEPT !.handle = FALSE],
          signal |-> FALSE, join |-> FALSE]
    ELSE IF ~connected
    THEN [result |-> Err("SendError"), app |-> [a EXCEPT !.handle = FALSE],
          signal |-> FALSE, join |-> FALSE]
    ELSE [result |-> NoResult,
          app |-> [a EXCEPT !.handle = FALSE, !.joining = TRUE],
          signal |-> TRUE, join |-> TRUE]

\* faulty variant: the value the worker returned is dropped
join_result_dropped(r) ==
    IF r = "panic" THEN Err("JoinError") ELSE Ok

\* handle.join().map_err(|_| "Error joining thread")??
join_result(r) ==
    CASE r = "panic" -> Err("JoinError")
      [] r = "Err" -> Err("WorkerError")
      [] r = "Ok" -> Ok

\* ------------------------------------------------- UniServiceManager gates
\* faulty variant: the group is forgotten in the user-service check
user_service_rule_without_group(user_service, spec) ==
    user_service /\ (spec.user \/ spec.password)

\* install(): user services take no custom user, group or password
user_service_rule(user_service, spec) ==
    user_service /\ (spec.user \/ spec.group \/ spec.password)

restart_rule(caps, spec) ==
    /\ RESTART_ON_FAILURE_REQUIRES_AUTOSTART \in caps
    /\ spec.restart_on_failure
    /\ ~spec.autostart

password_rule(caps, spec) ==
    /\ CUSTOM_USER_REQUIRES_PASSWORD \in caps
    /\ spec.user
    /\ ~spec.password

\* faulty variant: the capability test is inverted
group_rule_inverted(caps, spec) ==
    /\ SUPPORTS_CUSTOM_GROUP \in caps
    /\ spec.group

group_rule(caps, spec) ==
    /\ SUPPORTS_CUSTOM_GROUP \notin caps
    /\ spec.group

\* faulty variant: every installed status but Stopped is rejected: a stopped service
\* is installed over
install_over_stopped(observed, user_service, caps, spec) ==
    IF observed \in {OkStatus("NotInstalled"), OkStatus("Stopped")}
    THEN IF user_service_rule(user_service, spec) THEN BadServiceSpec
         ELSE IF restart_rule(caps, spec) THEN BadServiceSpec
         ELSE IF password_rule(caps, spec) THEN BadServiceSpec
         ELSE IF group_rule(caps, spec) THEN BadServiceSpec
         ELSE Dispatch
    ELSE IF observed.kind = "OkStatus" THEN AlreadyInstalled
    ELSE observed

\* install(): the value returned before the backend is reached, or Dispatch
install(observed, user_service, caps, spec) ==
    IF observed = OkStatus("NotInstalled")
    THEN IF user_service_rule(user_service, spec) THEN BadServiceSpec
         ELSE IF restart_rule(caps, spec) THEN BadServiceSpec
         ELSE IF password_rule(caps, spec) THEN BadServiceSpec
         ELSE IF group_rule(caps, spec) THEN BadServiceSpec
         ELSE Dispatch
    ELSE IF observed.kind = "OkStatus" THEN AlreadyInstalled
    ELSE observed

\* faulty variant: the gate of stop() is used: a running service is removed
uninstall_when_running(observed) ==
    IF observed = OkStatus("Running") THEN Dispatch
    ELSE IF observed.kind = "OkStatus" THEN WrongState(observed.arg)
    ELSE observed

\* faulty variant: a failed status query is taken for "nothing to remove"
uninstall_ignoring_status_error(observed) ==
    IF observed = OkStatus("Stopped") THEN Dispatch
    ELSE IF observed.kind = "OkStatus" THEN WrongState(observed.arg)
    ELSE Ok

uninstall(observed) ==
    IF observed = OkStatus("Stopped") THEN Dispatch
    ELSE IF observed.kind = "OkStatus" THEN WrongState(observed.arg)
    ELSE observed

\* faulty variant: a service that is not installed is started as well
start_unless_active(observed) ==
    IF observed \in {OkStatus("Stopped"), OkStatus("NotInstalled")} THEN Dispatch
    ELSE IF observed.kind = "OkStatus" THEN WrongState(observed.arg)
    ELSE observed

start(observed) ==
    IF observed = OkStatus("Stopped") THEN Dispatch
    ELSE IF observed.kind = "OkStatus" THEN WrongState(observed.arg)
    ELSE observed

\* faulty variant: the gate of start() is used
stop_when_stopped(observed) ==
    IF observed = OkStatus("Stopped") THEN Dispatch
    ELSE IF observed.kind = "OkStatus" THEN WrongState(observed.arg)
    ELSE observed

stop(observed) ==
    IF observed = OkStatus("Running") THEN Dispatch
    ELSE IF observed.kind = "OkStatus" THEN WrongState(observed.arg)
    ELSE observed

\* ------------------------------------------------------- wait_for_status
None == "None"

\* faulty variant: a failed query counts as "not installed"
poll_error_as_not_installed(observed, desired) ==
    IF observed.kind = "OkStatus"
    THEN IF observed.arg = desired
         THEN [done |-> TRUE, last_status |-> None, last_error |-> None]
         ELSE [done |-> FALSE, last_status |-> observed.arg, last_error |-> None]
    ELSE IF desired = "NotInstalled"
    THEN [done |-> TRUE, last_status |-> None, last_error |-> None]
    ELSE [done |-> FALSE, last_status |-> "NotInstalled", last_error |-> None]

\* faulty variant: a failed query ends the loop
poll_ending_on_error(observed, desired) ==
    [done |-> observed.kind # "OkStatus" \/ observed.arg = desired,
     last_status |-> IF observed.kind = "OkStatus" THEN observed.arg ELSE None,
     last_error |-> None]

\* one poll: return Ok at once, or the pair (last_status, last_error)
poll(observed, desired) ==
    IF observed.kind = "OkStatus"
    THEN IF observed.arg = desired
         THEN [done |-> TRUE, last_status |-> None, last_error |-> None]
         ELSE [done |-> FALSE, last_status |-> observed.arg, last_error |-> None]
    ELSE [done |-> FALSE, last_status |-> None, last_error |-> observed.kind]

\* faulty variant: the timeout is compared a poll interval late
timed_out_late(e, t) == e > t + PollInterval

\* start_time.elapsed() > timeout
timed_out(e, t) == e > t

\* the match on (last_status, last_error) at the timeout
timeout_result(last_status, last_error) ==
    IF last_status = None /\ last_error # None THEN TimeoutError(last_error)
    ELSE IF last_status # None /\ last_error = None THEN Timeout(last_status)
    ELSE [kind |-> "unreachable", arg |-> "-"]

\* ---------------------------------------------------------------- actions
Idle ==
    /\ pc = "idle"
    /\ desired_status = "-"
    /\ timeout = 0
    /\ elapsed = 0
    /\ slept = 0
    /\ last = NoCall

\* the call at the head of the script has returned with record c
Scripted(c) ==
    IF script # <<>>
    THEN script' = Tail(script) /\ trace' = Append(trace, c)
    ELSE UNCHANGED <<script, trace>>

\* a gated call: the status() query, the gate, and the backend call the gate
\* lets through
Gated(op, spec, observed, gate, outcomes) ==
    /\ pc = "idle"
    /\ IF gate = Dispatch
       THEN \E o \in outcomes :
                /\ platform' = o.platform
                /\ last' = Call(op, spec, observed, o.result, TRUE)
       ELSE /\ platform' = platform
            /\ last' = Call(op, spec, observed, gate, FALSE)
    /\ Scripted(last')
    /\ UNCHANGED <<config, waiting, others>>

DoInstall(spec) ==
    \E observed \in status(platform) :
        Gated("install", spec, observed,
              install(observed, is_user_service, capabilities, spec),
              backend_install(spec, platform))

DoUninstall ==
    \E observed \in status(platform) :
        Gated("uninstall", "-", observed, uninstall(observed),
              backend_uninstall(platform))

DoStart ==
    \E observed \in status(platform) :
        Gated("start", "-", observed, start(observed), backend_start(platform))

DoStop ==
    \E observed \in status(platform) :
        Gated("stop", "-", observed, stop(observed), backend_stop(platform))

\* wait_for_status(d, t) is entered: start_time is now
DoWait(d, t) ==
    /\ pc = "idle"
    /\ desired_status' = d
    /\ timeout' = t
    /\ elapsed' = 0
    /\ slept' = 0
    /\ pc' = "poll"
    /\ last' = NoCall
    /\ UNCHANGED <<config, platform, script, trace, others>>

WaitReturn(observed, result, e, took) ==
    /\ last' = Waited(desired_status, timeout, observed, result, e, slept, took)
    /\ Scripted(last')
    /\ pc' = "idle"
    /\ desired_status' = "-"
    /\ timeout' = 0
    /\ elapsed' = 0
    /\ slept' = 0

\* one turn of the loop up to its return or its sleep: the status() query,
\* which takes time, then the check of the elapsed time
WaitPoll ==
    /\ pc = "poll"
    /\ \E observed \in status(platform), took \in StatusDurations :
        LET p == poll(observed, desired_status)
            e == elapsed + took
        IN  IF p.done THEN WaitReturn(observed, Ok, e, took)
            ELSE IF timed_out(e, timeout)
            THEN WaitReturn(observed,
                            timeout_result(p.last_status, p.last_error), e, took)
            ELSE /\ pc' = "sleep"
                 /\ elapsed' = e
                 /\ UNCHANGED <<desired_status, timeout, slept, last, script,
                                trace>>
    /\ UNCHANGED <<config, platform, others>>

\* thread::sleep(50 ms): at least the poll interval
WaitSleep ==
    /\ pc = "sleep"
    /\ \E s \in SleepDurations :
           /\ elapsed' = elapsed + s
           /\ slept' = s
    /\ pc' = "poll"
    /\ UNCHANGED <<config, platform, desired_status, timeout, last, script,
                   trace, others>>

PlatformProgress ==
    /\ \E m \in PlatformMoves :
           /\ platform = m[1]
           /\ platform' = m[2]
    /\ UNCHANGED <<config, waiting, last, script, trace, others>>

\* nothing outside the manager has run
\* no workload has been made
RuntimeIdle ==
    /\ app = NoApp
    /\ thread = NoThread
    /\ called = NoAppCall
    /\ driver = NoDriver
    /\ scm = NoScm

OthersIdle ==
    /\ query = NoQuery
    /\ step = 0
    /\ host = NoHost
    /\ round = NoRound
    /\ RuntimeIdle

\* --------------------------------------------- ServiceSpec, the builder
\* arguments a ServiceSpec is given
MaxArgs == 2

\* ServiceSpec::new(path), held by the caller, and no call made yet; of the
\* Option fields <<>> is None and <<s>> is Some(s).  made is what
\* make_service_manager returned to the latest UniServiceManager::new and
\* commands the platform commands that call ran
NoBuilt ==
    [spec |-> [args |-> <<>>, display_name |-> <<>>, description |-> <<>>,
               user |-> <<>>, password |-> <<>>, group |-> <<>>,
               autostart |-> FALSE, restart_on_failure |-> FALSE],
     held |-> TRUE,
     call |-> [op |-> "none", value |-> "-", result |-> [kind |-> "None", arg |-> "-"],
               made |-> [kind |-> "None", arg |-> "-"], commands |-> 0]]

\* faulty variant: every string is accepted
validate_accepting_empty(field) == [kind |-> "OkField", arg |-> field]

\* ServiceSpec::validate
validate(field) ==
    IF field = "" THEN [kind |-> "BadServiceSpec", arg |-> "-"]
    ELSE [kind |-> "OkField", arg |-> field]

\* arg, display_name, description, set_user, set_password, set_group: the
\* result, and the spec that is returned with Ok
setter(spec, op, value) ==
    LET field == validate(value)
    IN  IF field.kind # "OkField"
        THEN [result |-> field, spec |-> spec]
        ELSE [result |-> [kind |-> "Ok", arg |-> "-"],
              spec |->
                  CASE op = "arg" ->
                           [spec EXCEPT !.args = Append(@, field.arg)]
                    [] op = "display_name" ->
                           [spec EXCEPT !.display_name = <<field.arg>>]
                    [] op = "description" ->
                           [spec EXCEPT !.description = <<field.arg>>]
                    [] op = "set_user" ->
                           [spec EXCEPT !.user = <<field.arg>>]
                    [] op = "set_password" ->
                           [spec EXCEPT !.password = <<field.arg>>]
                    [] op = "set_group" ->
                           [spec EXCEPT !.group = <<field.arg>>]]

\* faulty variant: the name is not looked at
new_without_name_check(name, made) == [result |-> made, commands |-> 1]

\* UniServiceManager::new: made is what make_service_manager returns, which
\* runs a platform command to find the service manager
new(name, made) ==
    IF name = ""
    THEN [result |-> [kind |-> "InvalidNameOrPrefix", arg |-> "-"],
          commands |-> 0]
    ELSE [result |-> made, commands |-> 1]

\* no manager is in use
ManagerIdle ==
    /\ is_user_service = FALSE
    /\ capabilities = {}
    /\ built = NoBuilt
    /\ platform = "NotInstalled"
    /\ Idle
    /\ script = <<>>
    /\ trace = <<>>

\* ------------------------------------------- Spec: the gated calls, freely
Init ==
    /\ is_user_service \in BOOLEAN
    /\ capabilities \in ServiceCapabilities
    /\ built = NoBuilt
    /\ platform \in ServiceStatus
    /\ Idle
    /\ script = <<>>
    /\ trace = <<>>
    /\ OthersIdle

Install == \E spec \in ServiceSpec : DoInstall(spec)

Uninstall == DoUninstall

Start == DoStart

Stop == DoStop

Next ==
    \/ Install
    \/ Uninstall
    \/ Start
    \/ Stop
    \/ PlatformProgress

Spec == Init /\ [][Next]_vars

\* --------------------------------------------- WaitSpec: wait_for_status
WaitInit ==
    /\ is_user_service = FALSE
    /\ capabilities = {}
    /\ built = NoBuilt
    /\ platform \in ServiceStatus
    /\ Idle
    /\ script = <<>>
    /\ trace = <<>>
    /\ OthersIdle

WaitCall == \E d \in ServiceStatus, t \in Timeouts : DoWait(d, t)

WaitNext ==
    \/ WaitCall
    \/ WaitPoll
    \/ WaitSleep
    \/ PlatformProgress

WaitSpec == WaitInit /\ [][WaitNext]_vars

\* the loop runs on the caller's thread: a poll or a sleep that can be
\* taken is taken
FairWaitSpec == WaitSpec /\ WF_vars(WaitPoll) /\ WF_vars(WaitSleep)

\* ------------------------------- ScenarioSpec: the controller runs a script
Installing(spec) == [op |-> "install", spec |-> spec, arg |-> "-", timeout |-> 0]
Stopping == [op |-> "stop", spec |-> "-", arg |-> "-", timeout |-> 0]
Waiting(d, t) == [op |-> "wait", spec |-> "-", arg |-> d, timeout |-> t]

\* specs as the examples and the tests build them: no user, group, password
PlainSpecs ==
    [user : {FALSE}, password : {FALSE}, group : {FALSE},
     autostart : BOOLEAN, restart_on_failure : BOOLEAN]

Scripts ==
    {<<Stopping>>}
        \cup {<<Waiting(d, t)>> : d \in ServiceStatus, t \in Timeouts}
        \cup {<<Installing(s), Installing(s)>> : s \in PlainSpecs}
        \cup {<<Installing(s), Waiting("Stopped", t), Stopping>> :
                  s \in PlainSpecs, t \in Timeouts}
        \cup {<<Installing(s), Waiting("Running", t)>> :
                  s \in PlainSpecs, t \in Timeouts}

ScenarioInit ==
    /\ is_user_service \in BOOLEAN
    /\ capabilities \in {ScCapabilities, SystemdCapabilities}
    /\ built = NoBuilt
    /\ platform \in ServiceStatus
    /\ Idle
    /\ script \in Scripts
    /\ trace = <<>>
    /\ OthersIdle

ScriptInstall ==
    /\ script # <<>>
    /\ Head(script).op = "install"
    /\ DoInstall(Head(script).spec)

ScriptStop ==
    /\ script # <<>>
    /\ Head(script).op = "stop"
    /\ DoStop

ScriptWait ==
    /\ script # <<>>
    /\ Head(script).op = "wait"
    /\ DoWait(Head(script).arg, Head(script).timeout)

ScenarioNext ==
    \/ ScriptInstall
    \/ ScriptStop
    \/ ScriptWait
    \/ WaitPoll
    \/ WaitSleep
    \/ PlatformProgress

ScenarioSpec == ScenarioInit /\ [][ScenarioNext]_vars

\* ------------- OrderSpec: one controller makes the four gated calls in any
\* order, each once, on a service that exists or not when it begins; a first
\* install may have been made before
OrderInit ==
    /\ is_user_service = FALSE
    /\ capabilities = SystemdCapabilities
    /\ built = NoBuilt
    /\ platform \in ServiceStatus
    /\ Idle
    /\ \E s \in PlainSpecs :
           LET calls == {Installing(s), Stopping,
                         [Stopping EXCEPT !.op = "start"],
                         [Stopping EXCEPT !.op = "uninstall"]}
               orders == {<<a, b, c, d>> : a \in calls, b \in calls,
                                           c \in calls, d \in calls}
               once == {o \in orders : {o[i] : i \in 1..4} = calls}
           IN  /\ ~s.restart_on_failure
               /\ script \in once \cup {<<Installing(s)>> \o o : o \in once}
    /\ trace = <<>>
    /\ OthersIdle

OrderNext ==
    \/ ScriptInstall
    \/ script # <<>> /\ Head(script).op = "start" /\ DoStart
    \/ ScriptStop
    \/ script # <<>> /\ Head(script).op = "uninstall" /\ DoUninstall
    \/ PlatformProgress

OrderSpec == OrderInit /\ [][OrderNext]_vars

\* ---------- RaceSpec: two controllers, each with its own UniServiceManager
\* for the same service name, make one gated call each.  trace holds their
\* calls in the order of their status queries; a call whose result is
\* Dispatch has passed its gate and has not yet called the backend
\* the first half of a gated call: status() and the gate
RaceQuery ==
    /\ Len(trace) < 2
    /\ \E op \in {"install", "uninstall", "start", "stop"},
          spec \in PlainSpecs, observed \in status(platform) :
           LET gate == CASE op = "install" ->
                               install(observed, is_user_service,
                                       capabilities, spec)
                         [] op = "uninstall" -> uninstall(observed)
                         [] op = "start" -> start(observed)
                         [] op = "stop" -> stop(observed)
           IN  trace' = Append(trace,
                               Call(op, IF op = "install" THEN spec ELSE "-",
                                    observed, gate, FALSE))
    /\ UNCHANGED <<config, platform, waiting, last, script, others>>

\* the second half: self.manager.install(spec) and the like, on the
\* platform as it is by now
RaceBackend ==
    /\ \E i \in 1..Len(trace) :
           /\ trace[i].result = Dispatch
           /\ \E o \in CASE trace[i].op = "install" ->
                               backend_install(trace[i].spec, platform)
                         [] trace[i].op = "uninstall" ->
                               backend_uninstall(platform)
                         [] trace[i].op = "start" -> backend_start(platform)
                         [] trace[i].op = "stop" -> backend_stop(platform) :
                  /\ platform' = o.platform
                  /\ trace' = [trace EXCEPT ![i].result = o.result,
                                            ![i].dispatched = TRUE]
    /\ UNCHANGED <<config, waiting, last, script, others>>

RaceNext ==
    \/ RaceQuery
    \/ RaceBackend

RaceSpec == Init /\ [][RaceNext]_vars

\* ----------------- LifecycleSpec: install, start, stop, uninstall, each
\* followed by the wait for its effect; the first error ends the run (`?`)
Lifecycle ==
    <<[op |-> "install", arg |-> "-"], [op |-> "wait", arg |-> "Stopped"],
      [op |-> "start", arg |-> "-"], [op |-> "wait", arg |-> "Running"],
      [op |-> "stop", arg |-> "-"], [op |-> "wait", arg |-> "Stopped"],
      [op |-> "uninstall", arg |-> "-"],
      [op |-> "wait", arg |-> "NotInstalled"]>>

\* the next call of the sequence is op: the calls before it returned Ok
NextIs(op) ==
    /\ last = NoCall
    /\ step \in 0..(Len(Lifecycle) - 1)
    /\ Lifecycle[step + 1].op = op

\* the `?` after a call: on Ok the sequence goes on, on an error it ends
Try ==
    /\ pc = "idle"
    /\ step >= 0
    /\ last # NoCall
    /\ step' = IF last.result = Ok THEN step + 1 ELSE -1
    /\ last' = NoCall
    /\ UNCHANGED <<config, platform, waiting, script, trace, query, host, round,
                   runtime>>

LifecycleInit ==
    /\ is_user_service \in BOOLEAN
    /\ capabilities \in {ScCapabilities, SystemdCapabilities}
    /\ built = NoBuilt
    /\ platform \in ServiceStatus
    /\ Idle
    /\ script = <<>>
    /\ trace = <<>>
    /\ OthersIdle

LifecycleNext ==
    \/ NextIs("install") /\ \E spec \in PlainSpecs : DoInstall(spec)
    \/ NextIs("start") /\ DoStart
    \/ NextIs("stop") /\ DoStop
    \/ NextIs("uninstall") /\ DoUninstall
    \/ NextIs("wait") /\ \E t \in Timeouts : DoWait(Lifecycle[step + 1].arg, t)
    \/ Try
    \/ WaitPoll
    \/ WaitSleep
    \/ PlatformProgress

LifecycleSpec == LifecycleInit /\ [][LifecycleNext]_vars

\* ------------- BackendSpec: install() and uninstall() of the backends,
\* called as UniServiceManager calls them: install on a service that is not
\* installed, uninstall on one that is installed (and stopped)
BackendInstall ==
    /\ ~installed(host)
    /\ \E spec \in PlainSpecs :
           \E o \in CASE host.backend = "systemd" -> systemd_install(spec, host)
                      [] host.backend = "launchd" -> launchd_install(host)
                      [] host.backend = "sc" -> sc_install(spec, host) :
               /\ host' = o.host
               /\ round' = [phase |-> IF o.result = Ok THEN "installed"
                                      ELSE "failed",
                            pre |-> host, result |-> o.result, ran |-> <<>>]
    /\ UNCHANGED <<managed, query, step, runtime>>

BackendUninstall ==
    /\ installed(host)
    /\ \E o \in CASE host.backend = "systemd" -> systemd_uninstall(host)
                  [] host.backend = "launchd" -> launchd_uninstall(host)
                  [] host.backend = "sc" -> sc_uninstall(host) :
           /\ host' = o.host
           /\ round' = [round EXCEPT
                            !.phase = IF o.result # Ok THEN "failed"
                                      ELSE IF @ = "installed" THEN "uninstalled"
                                      ELSE "removed",
                            !.result = o.result,
                            !.ran = IF host.backend = "sc" THEN o.ran
                                    ELSE <<>>]
    /\ UNCHANGED <<managed, query, step, runtime>>

\* Windows makes the instance of a user service from its template when the
\* user logs on
Logon ==
    /\ host.backend = "sc"
    /\ host.user
    /\ host.registered
    /\ ~host.instance
    /\ host' = [host EXCEPT !.instance = TRUE]
    /\ UNCHANGED <<managed, query, step, round, runtime>>

BackendInit ==
    /\ ManagerIdle
    /\ query = NoQuery
    /\ step = 0
    /\ RuntimeIdle
    /\ host \in [backend : {"systemd", "launchd", "sc"}, user : BOOLEAN,
                  dir : BOOLEAN, file : {FALSE}, registered : {FALSE},
                  instance : {FALSE}]
    /\ round = NoRound

BackendNext ==
    \/ BackendInstall
    \/ BackendUninstall
    \/ Logon

BackendSpec == BackendInit /\ [][BackendNext]_vars

\* --------------------- AdapterSpec: a BaseService, started and stopped
AppStart ==
    /\ called.starts < MaxCalls
    /\ ~app.joining
    /\ LET r == service_start(app)
       IN  /\ app' = r.app
           /\ thread' = IF r.spawn
                         THEN [thread EXCEPT !.state = "running",
                                             !.spawned = @ + 1]
                         ELSE thread
           /\ called' = [NoAppCall EXCEPT
                             !.op = "start", !.result = r.result,
                             !.before = HandleState(app), !.spawned = r.spawn,
                             !.starts = called.starts + 1,
                             !.stops = called.stops]
    /\ UNCHANGED <<managed, scm, query, step, host, round>>

\* stop() up to its return, or up to where it blocks in handle.join()
AppStop ==
    /\ called.stops < MaxCalls
    /\ ~app.joining
    /\ LET finished == thread.state = "finished"
           r == service_stop(app, finished,
                             app.receiver \/ thread.state = "running")
       IN  /\ app' = r.app
           /\ thread' = IF r.signal THEN [thread EXCEPT !.inbox = @ + 1]
                         ELSE thread
           /\ called' = [NoAppCall EXCEPT
                             !.op = "stop", !.result = r.result,
                             !.before = HandleState(app),
                             !.finished = app.handle /\ finished,
                             !.signalled = r.signal,
                             !.starts = called.starts,
                             !.stops = called.stops + 1]
    /\ UNCHANGED <<managed, scm, query, step, host, round>>

\* handle.join() returns, and stop() with it
StopJoin ==
    /\ app.joining
    /\ thread.state = "finished"
    /\ app' = [app EXCEPT !.joining = FALSE]
    /\ called' = [called EXCEPT !.result = join_result(thread.result),
                                !.joined = TRUE]
    /\ UNCHANGED <<managed, scm, query, step, host, round, thread>>

\* service_fn returns, by itself or on the signal, or panics; its receiver
\* is dropped
WorkerReturns ==
    /\ thread.state = "running"
    /\ \E r \in {"Ok", "Err", "panic"} :
           thread' = [thread EXCEPT !.state = "returned", !.result = r]
    /\ UNCHANGED <<managed, scm, query, step, host, round, app, called, driver>>

WorkerFinishes ==
    /\ thread.state = "returned"
    /\ thread' = [thread EXCEPT !.state = "finished"]
    /\ UNCHANGED <<managed, scm, query, step, host, round, app, called, driver>>

AdapterInit ==
    /\ ManagerIdle
    /\ query = NoQuery
    /\ step = 0
    /\ host = NoHost
    /\ round = NoRound
    /\ app = NewApp
    /\ thread = NoThread
    /\ called = NoAppCall
    /\ driver = NoDriver
    /\ scm = NoScm

AdapterNext ==
    \/ AppStart /\ UNCHANGED driver
    \/ AppStop /\ UNCHANGED driver
    \/ StopJoin /\ UNCHANGED driver
    \/ WorkerReturns
    \/ WorkerFinishes

AdapterSpec == AdapterInit /\ [][AdapterNext]_vars

\* ------------- DriverSpec: run_service(app, false), the console driver
\* interrupts the terminal sends while run_service runs
MaxInterrupts == 2

\* app.start()?
RunStart ==
    /\ driver.pc = "start"
    /\ AppStart
    /\ driver' = IF called'.result = Ok
                 THEN [driver EXCEPT !.pc = "set_handler"]
                 ELSE [driver EXCEPT !.pc = "done", !.result = called'.result]

\* wait_for_shutdown: ctrlc::set_handler(..)?, which fails when the process
\* has a handler already or the system refuses it
SetHandler ==
    /\ driver.pc = "set_handler"
    /\ \E set \in BOOLEAN :
           driver' = IF set
                     THEN [driver EXCEPT !.pc = "recv", !.handler = TRUE]
                     ELSE [driver EXCEPT !.pc = "done",
                                         !.result = Err("SetHandlerError")]
    /\ UNCHANGED <<managed, scm, query, step, host, round, app, thread, called>>

\* wait_for_shutdown: rx.recv()?, which blocks until the handler has sent;
\* the handler keeps the sender, the channel is never disconnected
Recv ==
    /\ driver.pc = "recv"
    /\ driver.rx > 0
    /\ driver' = [driver EXCEPT !.pc = "stop", !.rx = @ - 1]
    /\ UNCHANGED <<managed, scm, query, step, host, round, app, thread, called>>

\* app.stop()?; Ok(())
RunStop ==
    /\ driver.pc = "stop"
    /\ AppStop
    /\ driver' = IF app'.joining
                 THEN [driver EXCEPT !.pc = "join"]
                 ELSE [driver EXCEPT !.pc = "done", !.result = called'.result]

RunJoin ==
    /\ driver.pc = "join"
    /\ StopJoin
    /\ driver' = [driver EXCEPT !.pc = "done", !.result = called'.result]

\* Ctrl+C while the process lives: the handler, when it is set, sends on the
\* channel; without a handler the interrupt ends the process.  Once
\* wait_for_shutdown has returned, the receiver is dropped, the handler's
\* send fails and its expect() panics in the handler's thread, which then
\* handles no further interrupt
Interrupt ==
    /\ driver.pc \notin {"none", "done", "killed"}
    /\ driver.interrupts < MaxInterrupts
    /\ driver' = IF ~driver.handler
                 THEN [driver EXCEPT !.pc = "killed", !.interrupts = @ + 1]
                 ELSE IF driver.panicked
                 THEN [driver EXCEPT !.interrupts = @ + 1]
                 ELSE IF driver.pc \in {"stop", "join"}
                 THEN [driver EXCEPT !.panicked = TRUE, !.interrupts = @ + 1]
                 ELSE [driver EXCEPT !.rx = @ + 1, !.interrupts = @ + 1]
    /\ UNCHANGED <<managed, scm, query, step, host, round, app, thread, called>>

\* the app is handed to run_service new, or already started by the caller
DriverInit ==
    /\ ManagerIdle
    /\ query = NoQuery
    /\ step = 0
    /\ host = NoHost
    /\ round = NoRound
    /\ \/ app = NewApp /\ thread = NoThread
       \/ /\ app = service_start(NewApp).app
          /\ thread = [NoThread EXCEPT !.state = "running", !.spawned = 1]
    /\ called = NoAppCall
    /\ driver = [NoDriver EXCEPT !.pc = "start"]
    /\ scm = NoScm

DriverNext ==
    \/ RunStart
    \/ SetHandler
    \/ Recv
    \/ RunStop
    \/ RunJoin
    \/ Interrupt
    \/ driver.pc # "killed" /\ WorkerReturns
    \/ driver.pc # "killed" /\ WorkerFinishes

DriverSpec == DriverInit /\ [][DriverNext]_vars

\* every step of run_service that can be taken is taken, and a worker that
\* has returned finishes; interrupts and the worker's return are not forced
FairDriverSpec ==
    /\ DriverSpec
    /\ WF_vars(RunStart)
    /\ WF_vars(SetHandler)
    /\ WF_vars(Recv)
    /\ WF_vars(RunStop)
    /\ WF_vars(RunJoin)
    /\ WF_vars(driver.pc # "killed" /\ WorkerFinishes)

\* ------ InteractiveSpec: the test binary, run as test_service_interactive
\* faulty variant: the run is handed on in the mode it came in
start_service_same_mode(service_mode) == service_mode

\* start_service of the builds without a dispatcher: run_service(app, false)
start_service(service_mode) == FALSE

\* main: TestService::new, service.hello(), run_service(service, ..)
Hello ==
    /\ driver.pc = "hello"
    /\ driver' = [driver EXCEPT
                      !.pc = "entry",
                      !.sent = Append(@, IF driver.service_mode THEN "service"
                                         ELSE "regular")]
    /\ UNCHANGED <<managed, scm, query, step, host, round, app, thread, called>>

\* run_service: if service_mode { start_service(app) } else { .. }
Entry ==
    /\ driver.pc = "entry"
    /\ driver.depth < MaxCalls + 1
    /\ driver' = IF driver.service_mode
                 THEN [driver EXCEPT
                          !.service_mode = start_service(driver.service_mode),
                          !.depth = @ + 1]
                 ELSE [driver EXCEPT !.pc = "start", !.depth = @ + 1]
    /\ UNCHANGED <<managed, scm, query, step, host, round, app, thread, called>>

\* TestService::start: "starting", then start_thread
TestStart ==
    /\ driver.pc = "start"
    /\ driver' = [driver EXCEPT !.pc = "set_handler",
                                !.sent = Append(@, "starting")]
    /\ app' = [app EXCEPT !.receiver = FALSE, !.handle = TRUE]
    /\ thread' = [thread EXCEPT !.state = "spawned", !.spawned = @ + 1]
    /\ called' = [NoAppCall EXCEPT !.op = "start", !.result = Ok,
                                   !.before = HandleState(app),
                                   !.spawned = TRUE, !.starts = 1]
    /\ UNCHANGED <<managed, scm, query, step, host, round>>

\* the worker of start_thread: "running", then receiver.recv()
WorkerRunning ==
    /\ driver.pc # "killed"
    /\ thread.state = "spawned"
    /\ thread' = [thread EXCEPT !.state = "running"]
    /\ driver' = [driver EXCEPT !.sent = Append(@, "running")]
    /\ UNCHANGED <<managed, scm, query, step, host, round, app, called>>

\* the worker of start_thread: recv() returns, "quitting", Ok
WorkerQuits ==
    /\ driver.pc # "killed"
    /\ thread.state = "running"
    /\ thread.inbox > 0
    /\ thread' = [thread EXCEPT !.state = "finished", !.result = "Ok",
                                !.inbox = @ - 1]
    /\ driver' = [driver EXCEPT !.sent = Append(@, "quitting")]
    /\ UNCHANGED <<managed, scm, query, step, host, round, app, called>>

\* faulty variant: "stopping" is not written
TestStop_after_join ==
    /\ driver.pc = "stop"
    /\ driver' = [driver EXCEPT !.pc = "join"]
    /\ app' = [app EXCEPT !.handle = FALSE, !.joining = TRUE]
    /\ thread' = [thread EXCEPT !.inbox = @ + 1]
    /\ called' = [NoAppCall EXCEPT !.op = "stop",
                                   !.before = HandleState(app),
                                   !.signalled = TRUE, !.starts = 1,
                                   !.stops = 1]
    /\ UNCHANGED <<managed, scm, query, step, host, round>>

\* TestService::stop up to handle.join(): "stopping", sender.send(())
TestStop ==
    /\ driver.pc = "stop"
    /\ driver' = [driver EXCEPT !.pc = "join", !.sent = Append(@, "stopping")]
    /\ app' = [app EXCEPT !.handle = FALSE, !.joining = TRUE]
    /\ thread' = [thread EXCEPT !.inbox = @ + 1]
    /\ called' = [NoAppCall EXCEPT !.op = "stop",
                                   !.before = HandleState(app),
                                   !.signalled = TRUE, !.starts = 1,
                                   !.stops = 1]
    /\ UNCHANGED <<managed, scm, query, step, host, round>>

\* handle.join() returns, stop() returns Ok and run_service with it
TestJoin ==
    /\ driver.pc = "join"
    /\ thread.state = "finished"
    /\ driver' = [driver EXCEPT !.pc = "drop", !.result = Ok]
    /\ app' = [app EXCEPT !.joining = FALSE]
    /\ called' = [called EXCEPT !.result = Ok, !.joined = TRUE]
    /\ UNCHANGED <<managed, scm, query, step, host, round, thread>>

\* Drop for TestService, when run_service has returned: "goodbye"
TestDrop ==
    /\ \/ driver.pc = "drop"
       \/ driver.pc = "done" /\ driver.result = Err("SetHandlerError")
    /\ driver' = [driver EXCEPT !.pc = "exit", !.sent = Append(@, "goodbye")]
    /\ UNCHANGED <<managed, scm, query, step, host, round, app, thread, called>>

\* the test: server.expect_message(..) has read the next message; step is
\* the number of messages read
ExpectMessage ==
    /\ step < Len(driver.sent)
    /\ step' = step + 1
    /\ UNCHANGED <<managed, query, host, round, runtime>>

InteractiveInit ==
    /\ ManagerIdle
    /\ query = NoQuery
    /\ step = 0
    /\ host = NoHost
    /\ round = NoRound
    /\ app = NewApp
    /\ thread = NoThread
    /\ called = NoAppCall
    /\ \E service_mode \in BOOLEAN :
           driver = [NoDriver EXCEPT !.pc = "hello",
                                     !.service_mode = service_mode]
    /\ scm = NoScm

\* the test sends its interrupt when it has read the third message, "running"
InteractiveNext ==
    \/ Hello
    \/ Entry
    \/ TestStart
    \/ WorkerRunning
    \/ SetHandler
    \/ Recv
    \/ TestStop
    \/ WorkerQuits
    \/ TestJoin
    \/ TestDrop
    \/ ExpectMessage
    \/ step >= 3 /\ Interrupt

InteractiveSpec == InteractiveInit /\ [][InteractiveNext]_vars

\* ---------- DispatcherSpec: start_service and service_main under the SCM
\* faulty variant: a later application replaces the one in SERVICE_APP
StartService_replacing(i) ==
    /\ scm.callers[i] = "idle"
    /\ scm' = [scm EXCEPT !.owner = i, !.callers[i] = "set"]
    /\ UNCHANGED <<managed, query, step, host, round, app, thread, called,
                   driver>>

\* start_service up to service_dispatcher::start: SERVICE_APP.set(..)
StartService(i) ==
    /\ scm.callers[i] = "idle"
    /\ scm' = IF scm.owner = 0
              THEN [scm EXCEPT !.owner = i, !.callers[i] = "set"]
              ELSE [scm EXCEPT !.callers[i] = "failed"]
    /\ UNCHANGED <<managed, query, step, host, round, app, thread, called,
                   driver>>

\* service_dispatcher::start(&name, ffi_service_main)?: the SCM runs
\* service_main, or the call fails and start_service returns the error
DispatcherStart(i) ==
    /\ scm.callers[i] = "set"
    /\ \E connected \in BOOLEAN :
           scm' = IF connected
                  THEN [scm EXCEPT !.callers[i] = "dispatching",
                                   !.dispatchers = @ + 1, !.pc = "main"]
                  ELSE [scm EXCEPT !.callers[i] = "refused",
                                   !.dispatchers = @ + 1]
    /\ UNCHANGED <<managed, query, step, host, round, app, thread, called,
                   driver>>

\* faulty variant: Running is reported again and again
SetStatus_repeating ==
    /\ scm.pc \in {"report_running", "report_stop_pending", "drop"}
    /\ Len(scm.reported) < 5
    /\ scm' = IF scm.pc = "report_running"
              THEN [scm EXCEPT !.reported = Append(@, "Running")]
              ELSE IF scm.pc = "report_stop_pending"
              THEN [scm EXCEPT !.pc = "stop",
                               !.reported = Append(@, "StopPending")]
              ELSE [scm EXCEPT !.pc = "returned",
                               !.reported = Append(@, "Stopped")]
    /\ UNCHANGED <<managed, query, step, host, round, app, thread, called,
                   driver>>

\* ServiceControlHandler::set_status for the state that follows pc; at
\* "drop" it is the one of Drop for ServiceControlHandler, whose error is
\* logged and dropped; any other error is returned by run_service
SetStatus ==
    /\ scm.pc \in {"report_running", "report_stop_pending", "drop"}
    /\ \E accepted \in BOOLEAN :
           LET state == CASE scm.pc = "report_running" -> "Running"
                          [] scm.pc = "report_stop_pending" -> "StopPending"
                          [] scm.pc = "drop" -> "Stopped"
               next == CASE scm.pc = "report_running" -> "wait"
                         [] scm.pc = "report_stop_pending" -> "stop"
                         [] scm.pc = "drop" -> "returned"
           IN  scm' = IF accepted
                      THEN [scm EXCEPT !.pc = next,
                                       !.reported = Append(@, state)]
                      ELSE IF scm.pc = "drop"
                      THEN [scm EXCEPT !.pc = "returned", !.refused = TRUE,
                                       !.logged = TRUE]
                      ELSE [scm EXCEPT !.pc = "drop", !.refused = TRUE,
                                       !.result = Err("StatusError")]
    /\ UNCHANGED <<managed, query, step, host, round, app, thread, called,
                   driver>>

\* faulty variant: the handle is not dropped when StartPending is refused
Register_leaking_handle ==
    /\ scm.pc = "main"
    /\ \E accepted \in BOOLEAN :
           scm' = IF ~accepted
                  THEN [scm EXCEPT !.taken = TRUE, !.registered = TRUE,
                                   !.pc = "returned", !.refused = TRUE,
                                   !.result = Err("StatusError")]
                  ELSE [scm EXCEPT !.taken = TRUE, !.registered = TRUE,
                                   !.pc = "start",
                                   !.reported = Append(@, "StartPending")]
    /\ UNCHANGED <<managed, query, step, host, round, app, thread, called,
                   driver>>

\* run_service up to app.start(): app.take(), ServiceControlHandler::register
\* with its set_status(StartPending)
Register ==
    /\ scm.pc = "main"
    /\ \E registered \in BOOLEAN, accepted \in BOOLEAN :
           scm' = IF scm.taken
                  THEN [scm EXCEPT !.pc = "returned",
                                   !.result = Err("AppNotFound")]
                  ELSE IF ~registered
                  THEN [scm EXCEPT !.taken = TRUE, !.pc = "returned",
                                   !.result = Err("RegisterError")]
                  ELSE IF ~accepted
                  THEN [scm EXCEPT !.taken = TRUE, !.registered = TRUE,
                                   !.pc = "drop", !.refused = TRUE,
                                   !.result = Err("StatusError")]
                  ELSE [scm EXCEPT !.taken = TRUE, !.registered = TRUE,
                                   !.pc = "start",
                                   !.reported = Append(@, "StartPending")]
    /\ UNCHANGED <<managed, query, step, host, round, app, thread, called,
                   driver>>

\* faulty variant: the error of app.start() is kept and the run goes on
ScmAppStart_going_on ==
    /\ scm.pc = "start"
    /\ \E started \in BOOLEAN :
           scm' = IF started
                  THEN [scm EXCEPT !.pc = "report_running",
                                   !.worker = "running"]
                  ELSE [scm EXCEPT !.pc = "report_running",
                                   !.result = Err("StartError")]
    /\ UNCHANGED <<managed, query, step, host, round, app, thread, called,
                   driver>>

\* app.start()?
ScmAppStart ==
    /\ scm.pc = "start"
    /\ \E started \in BOOLEAN :
           scm' = IF started
                  THEN [scm EXCEPT !.pc = "report_running",
                                   !.worker = "running"]
                  ELSE [scm EXCEPT !.pc = "drop",
                                   !.result = Err("StartError")]
    /\ UNCHANGED <<managed, query, step, host, round, app, thread, called,
                   driver>>

\* wait_for_shutdown_or_exit(shutdown_rx, &*app)?: returns when the channel
\* holds a signal or the workload runs no more; it takes the receiver with
\* it
WaitForShutdownOrExit ==
    /\ scm.pc = "wait"
    /\ \/ /\ scm.rx > 0 \/ scm.worker # "running"
          /\ scm' = [scm EXCEPT !.pc = "report_stop_pending", !.rx = 0]
       \/ scm' = [scm EXCEPT !.pc = "drop", !.rx = 0,
                             !.result = Err("WaitError")]
    /\ UNCHANGED <<managed, query, step, host, round, app, thread, called,
                   driver>>

\* app.stop()?, which ends the workload, and Ok(())
ScmAppStop ==
    /\ scm.pc = "stop"
    /\ \E stopped \in BOOLEAN :
           scm' = [scm EXCEPT !.pc = "drop", !.worker = "joined",
                              !.stops = @ + 1,
                              !.result = IF stopped THEN Ok
                                         ELSE Err("StopError")]
    /\ UNCHANGED <<managed, query, step, host, round, app, thread, called,
                   driver>>

\* the workload ends by itself
WorkloadExits ==
    /\ scm.worker = "running"
    /\ scm' = [scm EXCEPT !.worker = "exited"]
    /\ UNCHANGED <<managed, query, step, host, round, app, thread, called,
                   driver>>

\* the SCM sends a control to the registered handler; the receiver of the
\* shutdown channel is there until the wait has taken it
Control(event) ==
    /\ scm.registered
    /\ scm.pc # "returned"
    /\ scm.controls < MaxControls
    /\ LET r == event_handler_fn(event, scm.pc \in {"start", "report_running",
                                                     "wait"})
       IN  scm' = [scm EXCEPT
                      !.controls = @ + 1,
                      !.rx = IF r.forwarded THEN @ + 1 ELSE @,
                      !.reply = [control |-> event, result |-> r.result,
                                 forwarded |-> r.send /\ r.forwarded]]
    /\ UNCHANGED <<managed, query, step, host, round, app, thread, called,
                   driver>>

DispatcherInit ==
    /\ ManagerIdle
    /\ query = NoQuery
    /\ step = 0
    /\ host = NoHost
    /\ round = NoRound
    /\ app = NoApp
    /\ thread = NoThread
    /\ called = NoAppCall
    /\ driver = NoDriver
    /\ scm = NoScm

DispatcherNext ==
    \/ \E i \in 1..MaxApps : StartService(i)
    \/ \E i \in 1..MaxApps : DispatcherStart(i)
    \/ Register
    \/ ScmAppStart
    \/ SetStatus
    \/ WaitForShutdownOrExit
    \/ ScmAppStop
    \/ WorkloadExits
    \/ \E event \in {"Interrogate", "Stop", "Pause"} : Control(event)

DispatcherSpec == DispatcherInit /\ [][DispatcherNext]_vars

\* ------- BuilderSpec: a ServiceSpec is built and the manager constructed
\* a setter is called on the spec the caller holds; it takes the spec and
\* gives it back only with Ok
BuilderCall ==
    /\ built.held
    /\ \E op \in {"arg", "display_name", "description", "set_user",
                  "set_password", "set_group", "set_autostart",
                  "set_restart_on_failure"},
          value \in {"", "a"} :
           IF op = "set_autostart"
           THEN built' = [built EXCEPT
                             !.spec.autostart = TRUE,
                             !.call = [NoBuilt.call EXCEPT !.op = op,
                                                           !.result = Ok]]
           ELSE IF op = "set_restart_on_failure"
           THEN built' = [built EXCEPT
                             !.spec.restart_on_failure = TRUE,
                             !.call = [NoBuilt.call EXCEPT !.op = op,
                                                           !.result = Ok]]
           ELSE /\ op = "arg" => Len(built.spec.args) < MaxArgs
                /\ LET r == setter(built.spec, op, value)
                   IN  built' = [built EXCEPT
                                    !.spec = r.spec,
                                    !.held = r.result = Ok,
                                    !.call = [NoBuilt.call EXCEPT
                                                 !.op = op, !.value = value,
                                                 !.result = r.result]]
    /\ UNCHANGED <<is_user_service, capabilities, platform, waiting, last,
                   script, trace, others>>

ManagerNew ==
    /\ \E name \in {"", "a"},
          made \in {Ok, Err("ServiceManagementNotAvailable"),
                    Err("BadSid")} :
           LET r == new(name, made)
           IN  built' = [built EXCEPT
                            !.call = [op |-> "new", value |-> name,
                                      result |-> r.result, made |-> made,
                                      commands |-> r.commands]]
    /\ UNCHANGED <<is_user_service, capabilities, platform, waiting, last,
                   script, trace, others>>

BuilderInit == ManagerIdle /\ OthersIdle

BuilderNext == BuilderCall \/ ManagerNew

BuilderSpec == BuilderInit /\ [][BuilderNext]_vars

\* ------------------------- StatusSpec: status() of the three backends
SystemdStatus ==
    /\ \E c \in Children("systemd") :
           query' = Queried("systemd", FALSE, <<c>>, systemd_status(c))
    /\ UNCHANGED <<managed, step, host, round, runtime>>

LaunchdStatus ==
    /\ \E c \in Children("launchd") :
           query' = Queried("launchd", FALSE, <<c>>, launchd_status(c))
    /\ UNCHANGED <<managed, step, host, round, runtime>>

\* the template is queried only when the instance of a user service is
\* reported as not installed
ScStatus ==
    /\ \E luid \in BOOLEAN, instance \in Children("sc") :
           IF luid /\ raw_status(instance) = OkStatus("NotInstalled")
           THEN \E template \in Children("sc") :
                    query' = Queried("sc", luid, <<instance, template>>,
                                     sc_status(luid, instance, template))
           ELSE query' = Queried("sc", luid, <<instance>>,
                                 sc_status(luid, instance, NoChild))
    /\ UNCHANGED <<managed, step, host, round, runtime>>

StatusInit ==
    /\ ManagerIdle
    /\ OthersIdle

StatusNext ==
    \/ SystemdStatus
    \/ LaunchdStatus
    \/ ScStatus

StatusSpec == StatusInit /\ [][StatusNext]_vars

\* ------------------------------------------------------------ properties
IsStatus(r) == r.kind = "OkStatus"

\* C1: install reaches the backend only when the status it observed is
\* NotInstalled; on every other observed status it returns AlreadyInstalled
\* and the backend install is not invoked.
InstallOnlyWhenNotInstalled ==
    last.op = "install" =>
        /\ last.dispatched => last.observed = OkStatus("NotInstalled")
        /\ (IsStatus(last.observed) /\ last.observed.arg # "NotInstalled") =>
               (last.result = AlreadyInstalled /\ ~last.dispatched)

InstallRejectedWhilePending ==
    /\ last.op = "install"
    /\ last.observed = OkStatus("StartPending")
    /\ last.result = AlreadyInstalled
    /\ ~last.dispatched

\* C4: start reaches the backend only when the observed status is Stopped; on
\* every other observed status s it returns WrongState(s) and the backend
\* start is not invoked.
StartOnlyWhenStopped ==
    last.op = "start" =>
        /\ last.dispatched => last.observed = OkStatus("Stopped")
        /\ (IsStatus(last.observed) /\ last.observed.arg # "Stopped") =>
               (last.result = WrongState(last.observed.arg) /\ ~last.dispatched)

StartRejectedWhenNotInstalled ==
    /\ last.op = "start"
    /\ last.observed = OkStatus("NotInstalled")
    /\ last.result = WrongState("NotInstalled")
    /\ ~last.dispatched

\* C5: uninstall reaches the backend only when the observed status is
\* Stopped; on every other observed status s it returns WrongState(s) and the
\* backend uninstall is not invoked, so that the call leaves a service it
\* saw running where it is.
UninstallOnlyWhenStopped ==
    last.op = "uninstall" =>
        /\ last.dispatched => last.observed = OkStatus("Stopped")
        /\ (IsStatus(last.observed) /\ last.observed.arg # "Stopped") =>
               (last.result = WrongState(last.observed.arg) /\ ~last.dispatched)

UninstallRejectedWhenRunning ==
    /\ last.op = "uninstall"
    /\ last.observed = OkStatus("Running")
    /\ last.result = WrongState("Running")
    /\ ~last.dispatched
    /\ platform = "Running"

SetsCredentials(spec) == spec.user \/ spec.group \/ spec.password

\* C6 as stated: on a user-service manager, install of a spec with user, group
\* or password set returns BadServiceSpec and does not invoke the backend
\* (whenever the platform answered the status query of the call).
UserSpecAlwaysBadServiceSpec ==
    (/\ last.op = "install"
     /\ is_user_service
     /\ SetsCredentials(last.spec)
     /\ IsStatus(last.observed)) =>
        (last.result = BadServiceSpec /\ ~last.dispatched)

\* C6 amended: on a user-service manager, install of a spec with user, group
\* or password set never invokes the backend; it returns BadServiceSpec when
\* the observed status is NotInstalled, AlreadyInstalled on any other
\* observed status, and the error of the status query when that fails.
UserSpecNeverInstalled ==
    (last.op = "install" /\ is_user_service /\ SetsCredentials(last.spec)) =>
        /\ ~last.dispatched
        /\ last.result =
               IF last.observed = OkStatus("NotInstalled") THEN BadServiceSpec
               ELSE IF IsStatus(last.observed) THEN AlreadyInstalled
               ELSE last.observed

\* only the user-service rule can have rejected this spec
UserSpecRejected ==
    /\ last.op = "install"
    /\ is_user_service
    /\ last.spec.group /\ ~last.spec.user /\ ~last.spec.password
    /\ SUPPORTS_CUSTOM_GROUP \in capabilities
    /\ RESTART_ON_FAILURE_REQUIRES_AUTOSTART \notin capabilities
    /\ last.observed = OkStatus("NotInstalled")
    /\ last.result = BadServiceSpec
    /\ ~last.dispatched

ViolatesCapabilityRule(caps, spec) ==
    \/ CUSTOM_USER_REQUIRES_PASSWORD \in caps /\ spec.user /\ ~spec.password
    \/ RESTART_ON_FAILURE_REQUIRES_AUTOSTART \in caps
           /\ spec.restart_on_failure /\ ~spec.autostart
    \/ SUPPORTS_CUSTOM_GROUP \notin caps /\ spec.group

\* C7 as stated: with NotInstalled observed, a spec that violates a capability
\* rule gets BadServiceSpec and no backend call, and a spec that violates
\* none of them reaches the backend install.
CapabilityRulesDecideInstall ==
    (last.op = "install" /\ last.observed = OkStatus("NotInstalled")) =>
        IF ViolatesCapabilityRule(capabilities, last.spec)
        THEN last.result = BadServiceSpec /\ ~last.dispatched
        ELSE last.dispatched

\* C7 amended: with NotInstalled observed, a spec that violates a capability
\* rule gets BadServiceSpec and no backend call; a spec that violates none of
\* them reaches the backend install unless the manager is a user service and
\* the spec sets user, group or password (BadServiceSpec again).
CapabilityRulesGuardInstall ==
    (last.op = "install" /\ last.observed = OkStatus("NotInstalled")) =>
        IF ViolatesCapabilityRule(capabilities, last.spec)
        THEN last.result = BadServiceSpec /\ ~last.dispatched
        ELSE IF is_user_service /\ SetsCredentials(last.spec)
        THEN last.result = BadServiceSpec /\ ~last.dispatched
        ELSE last.dispatched

\* only the restart rule can have rejected this spec
RestartWithoutAutostartRejected ==
    /\ last.op = "install"
    /\ last.observed = OkStatus("NotInstalled")
    /\ RESTART_ON_FAILURE_REQUIRES_AUTOSTART \in capabilities
    /\ last.spec.restart_on_failure /\ ~last.spec.autostart
    /\ ~SetsCredentials(last.spec)
    /\ last.result = BadServiceSpec
    /\ ~last.dispatched

\* the calls of the script made so far are the operations ops, in order
Made(ops) ==
    /\ Len(trace) = Len(ops)
    /\ \A i \in 1..Len(ops) : trace[i].op = ops[i]

StopOnlyWhenRunning ==
    /\ \A i \in 1..Len(trace) :
           trace[i].op = "stop" =>
               /\ trace[i].dispatched => trace[i].observed = OkStatus("Running")
               /\ (IsStatus(trace[i].observed)
                       /\ trace[i].observed.arg # "Running") =>
                      /\ trace[i].result = WrongState(trace[i].observed.arg)
                      /\ ~trace[i].dispatched
    /\ (/\ Made(<<"install", "wait", "stop">>)
        /\ trace[2].arg = "Stopped"
        /\ trace[2].result = Ok
        /\ IsStatus(trace[3].observed)) =>
           (trace[3].result = WrongState("Stopped") /\ ~trace[3].dispatched)

StopRejectedAfterInstall ==
    /\ Made(<<"install", "wait", "stop">>)
    /\ trace[1].result = Ok
    /\ trace[1].dispatched
    /\ trace[2].arg = "Stopped"
    /\ trace[2].result = Ok
    /\ trace[3].result = WrongState("Stopped")
    /\ ~trace[3].dispatched

\* C8: wait_for_status returns Ok only in a poll whose status() query
\* returned the desired status, whatever the platform reported before.
WaitOkOnlyOnTarget ==
    (last.op = "wait" /\ last.result = Ok) =>
        last.observed = OkStatus(last.arg)

\* Ok after at least one poll that did not see the desired status
WaitOkAfterSleep ==
    /\ last.op = "wait"
    /\ last.result = Ok
    /\ last.observed = OkStatus("Running")
    /\ last.slept > 0

\* C9: a wait_for_status that does not return Ok returns exactly one of
\* Timeout(s) and TimeoutError(k), as the last status() query decides:
\* Timeout(s) when it returned the status s, TimeoutError(k) when it failed
\* with kind k.  wait_for_status(Running, 200 ms) right after a successful
\* install returns Timeout(Stopped) (when its last query is answered).
TimeoutReportsLastPoll ==
    /\ \A i \in 1..Len(trace) :
           (trace[i].op = "wait" /\ trace[i].result # Ok) =>
               /\ trace[i].elapsed > trace[i].timeout
               /\ trace[i].result =
                      IF IsStatus(trace[i].observed)
                      THEN Timeout(trace[i].observed.arg)
                      ELSE TimeoutError(trace[i].observed.kind)
    /\ (/\ Made(<<"install", "wait">>)
        /\ trace[1].observed = OkStatus("NotInstalled")
        /\ trace[1].result = Ok
        /\ trace[2].arg = "Running"
        /\ trace[2].timeout = 200) =>
           /\ trace[2].result # Ok
           /\ IsStatus(trace[2].observed) => trace[2].result = Timeout("Stopped")

WaitRunningTimesOutStopped ==
    /\ Made(<<"install", "wait">>)
    /\ trace[1].result = Ok
    /\ trace[2].arg = "Running"
    /\ trace[2].timeout = 200
    /\ trace[2].elapsed > 200
    /\ trace[2].result = Timeout("Stopped")

\* C10 as stated: wait_for_status(target, t) returns at most one poll
\* interval (50 ms) after t.
WaitWithinPollInterval ==
    last.op = "wait" => last.elapsed <= last.timeout + PollInterval

\* C10 amended: wait_for_status(target, t) always returns; once the elapsed
\* time exceeds t no further sleep is taken and the call returns in that
\* poll; it returns at most t plus the length of its last sleep (50 ms or
\* more) plus the time its last status() query took.
WaitReturnsAfterLastPoll ==
    /\ [](pc = "sleep" => elapsed <= timeout)
    /\ [](last.op = "wait" =>
              last.elapsed <= last.timeout + last.slept + last.took)
    /\ (pc # "idle") ~> (pc = "idle")

\* a timeout, later than t + 50 ms, that attains the amended bound
WaitTimedOutLate ==
    /\ last.op = "wait"
    /\ last.result.kind = "Timeout"
    /\ last.slept > 0
    /\ last.elapsed > last.timeout + PollInterval
    /\ last.elapsed = last.timeout + last.slept + last.took

\* the exit code by which the tool of a backend says "no such service"
NotInstalledCode(backend) ==
    CASE backend = "systemd" -> 4
      [] backend = "launchd" -> 113
      [] backend = "sc" -> 1060

\* every tool run of the call ended with the "no such service" exit code
SaidNotInstalled(q) ==
    \A i \in 1..Len(q.children) :
        q.children[i].spawned /\ q.children[i].code = NotInstalledCode(q.backend)

\* the last tool run of the call ended with a non-zero exit code that the
\* backend maps to no status
SaidUnmappedFailure(q) ==
    LET c == q.children[Len(q.children)]
    IN  /\ c.spawned
        /\ c.code # 0
        /\ c.code # NotInstalledCode(q.backend)
        /\ ~(q.backend = "systemd" /\ c.code = 3)

Decoded(q) == \A i \in 1..Len(q.children) : q.children[i].utf8

ErrKinds ==
    {"IoError", "Unknown", "BadUtf8", "BadExitStatus", "ServicePathNotFound",
     "AccessDenied", "AlreadyInstalled", "PlatformError"}

Returned(n) == step = n - 1 /\ last.op = Lifecycle[n].op

BackendErrorsPassThrough ==
    last.op \in {"install", "uninstall", "start", "stop"} =>
        /\ ~IsStatus(last.observed) =>
               /\ last.observed.kind \in BackendErrKinds
               /\ last.result = last.observed
               /\ ~last.dispatched
        /\ last.dispatched =>
               \/ last.result = Ok
               \/ /\ last.result.kind \in BackendErrKinds
                  /\ last.result.arg = "-"
        /\ last.result = Ok => last.dispatched

\* the status query of an uninstall fails
UninstallStatusQueryFailed ==
    /\ last.op = "uninstall"
    /\ last.observed = Err("BadExitStatus")
    /\ last.result = Err("BadExitStatus")
    /\ ~last.dispatched

\* C15: the workload is started at most once.  The first start() returns Ok
\* and spawns the one worker thread there ever is; every later start()
\* returns an error and spawns nothing.
StartedAtMostOnce ==
    /\ thread.spawned <= 1
    /\ called.op = "start" =>
           IF called.starts = 1
           THEN called.result = Ok /\ called.spawned /\ thread.spawned = 1
           ELSE /\ called.result.kind \notin {"Ok", "None"}
                /\ ~called.spawned

\* a second start() has failed, the thread of the first is the only one
SecondStartFailed ==
    /\ called.op = "start"
    /\ called.starts = 2
    /\ called.result = Err("ReceiverNotFound")
    /\ thread.spawned = 1

\* C16 as stated: a stop() of a started adapter that has returned did signal
\* and join, and returned the error of a worker that returned one.
StopPropagatesWorkerError ==
    (called.op = "stop" /\ called.before = "Running"
                        /\ called.result # NoResult) =>
        /\ called.signalled
        /\ called.joined
        /\ thread.result = "Err" => called.result = Err("WorkerError")

\* C16, amended: a stop() of a started adapter signals and joins when the
\* worker has not finished and still holds its receiver, and then returns
\* what the worker returned: its error, Ok, or the join error after a panic.
\* Otherwise nothing is joined: stop() returns Ok when the worker has
\* finished, and the send error when the worker has dropped its receiver.
StopPropagatesWhenSignalled ==
    (called.op = "stop" /\ called.before = "Running") =>
        /\ called.signalled /\ called.result = NoResult => ~called.joined
        /\ called.signalled /\ called.result # NoResult =>
               /\ called.joined
               /\ thread.result = "Err" => called.result = Err("WorkerError")
               /\ thread.result = "Ok" => called.result = Ok
               /\ thread.result = "panic" => called.result = Err("JoinError")
        /\ ~called.signalled =>
               /\ ~called.joined
               /\ called.result =
                      IF called.finished THEN Ok ELSE Err("SendError")

\* stop() has signalled and joined a worker that returned an error, and
\* returned that error
StopReturnedWorkerError ==
    /\ called.op = "stop"
    /\ called.signalled
    /\ called.joined
    /\ thread.result = "Err"
    /\ called.result = Err("WorkerError")

\* C17: a stop() that finds the worker thread finished sends no signal,
\* joins nothing and returns Ok.
StopOfFinishedWorker ==
    (called.op = "stop" /\ called.finished) =>
        /\ called.result = Ok
        /\ ~called.signalled
        /\ ~called.joined

\* stop() after the worker has failed and finished: Ok, and no signal was
\* ever sent
StoppedAfterWorkerFailed ==
    /\ called.op = "stop"
    /\ called.finished
    /\ thread.result = "Err"
    /\ thread.inbox = 0
    /\ called.result = Ok

\* C18: the thread handle only moves forward, from Unstarted to Running to
\* Joined, whatever start() and stop() calls are made; a stop() while
\* Unstarted fails, signals nothing, joins nothing and leaves the handle
\* Unstarted.
HandleMonotone ==
    /\ [][/\ HandleState(app) = "Running" => HandleState(app') # "Unstarted"
          /\ HandleState(app) = "Joined" => HandleState(app') = "Joined"]_vars
    /\ []((called.op = "stop" /\ called.before = "Unstarted") =>
              /\ called.result.kind \notin {"Ok", "None"}
              /\ ~called.signalled
              /\ ~called.joined
              /\ HandleState(app) = "Unstarted")

\* stop() has failed on an adapter that was never started
StoppedUnstarted ==
    /\ called.op = "stop"
    /\ called.before = "Unstarted"
    /\ called.result = Err("HandleNotFound")
    /\ thread.inbox = 0
    /\ thread.state = "none"

\* C19: in console mode a workload that ends by itself wakes the driver:
\* once the worker thread has finished, run_service returns, unless an
\* interrupt is delivered.
SelfTerminationWakesDriver ==
    [](thread.state = "finished" =>
           <>(driver.pc = "done" \/ driver.interrupts > 0))

\* C20: the console driver sets the interrupt handler before it calls
\* app.start(): once app.start() has been called the handler is in place,
\* and no interrupt after that ends the process without app.stop(); a run
\* whose app.start() failed has not called app.stop().
ConsoleDriverOrder ==
    /\ driver.pc # "start" => driver.handler
    /\ called.op = "start" => driver.pc # "killed"
    /\ (driver.pc = "done" /\ driver.result = Err("ReceiverNotFound")) =>
           called.op = "start"

\* C21: in an interactive run, in which the interrupt handler could be set,
\* the messages are sent in the order "regular", "starting", "running",
\* "stopping", "quitting", "goodbye": what has been sent is always a
\* beginning of that sequence, and nothing after "running" is sent before
\* the interrupt.
InteractiveOrder ==
    (driver.sent # <<>> /\ driver.sent[1] = "regular"
                        /\ driver.result # Err("SetHandlerError")) =>
        /\ Len(driver.sent) <= 6
        /\ driver.sent =
               SubSeq(<<"regular", "starting", "running", "stopping",
                        "quitting", "goodbye">>, 1, Len(driver.sent))
        /\ driver.interrupts = 0 => Len(driver.sent) <= 3

\* the interactive run is over and all six messages were sent
InteractiveRunDone ==
    /\ driver.pc = "exit"
    /\ driver.result = Ok
    /\ driver.interrupts = 1
    /\ driver.sent = <<"regular", "starting", "running", "stopping",
                       "quitting", "goodbye">>

\* C22: under the dispatcher a run in which nothing fails reports
\* StartPending, Running, StopPending, Stopped, each once and in that order:
\* as long as no call has failed, what was reported is a beginning of that
\* sequence, and when run_service has returned Ok it is all of it.
NormalRunStatusTrace ==
    (scm.result \in {NoResult, Ok} /\ ~scm.refused) =>
        /\ Len(scm.reported) <= 4
        /\ scm.reported =
               SubSeq(<<"StartPending", "Running", "StopPending", "Stopped">>,
                      1, Len(scm.reported))
        /\ scm.pc = "returned" => Len(scm.reported) = 4

\* a normal run is over: started, stopped by a Stop control, all four
\* statuses reported
NormalRunDone ==
    /\ scm.pc = "returned"
    /\ scm.result = Ok
    /\ scm.reply = [control |-> "Stop", result |-> "NoError",
                    forwarded |-> TRUE]
    /\ scm.worker = "joined"
    /\ scm.reported = <<"StartPending", "Running", "StopPending", "Stopped">>

StoppedOnEveryExit ==
    /\ []((scm.pc = "returned" /\ scm.registered) =>
              /\ scm.result # NoResult
              /\ IF scm.logged
                 THEN \A i \in 1..Len(scm.reported) :
                          scm.reported[i] # "Stopped"
                 ELSE /\ scm.reported # <<>>
                      /\ scm.reported[Len(scm.reported)] = "Stopped")
    /\ []((scm.pc # "returned" /\ scm.registered) =>
              /\ ~scm.logged
              /\ \A i \in 1..Len(scm.reported) : scm.reported[i] # "Stopped")
    /\ [][scm.pc = "drop" => scm'.result = scm.result]_vars

\* the wait has failed, Stopped was reported and the error returned
StoppedAfterWaitFailed ==
    /\ scm.pc = "returned"
    /\ scm.result = Err("WaitError")
    /\ scm.reported = <<"StartPending", "Running", "Stopped">>

\* C25: of the start_service calls of a process exactly one sets SERVICE_APP,
\* in whatever order they run: every other call fails, leaves the
\* application of the first in place and does not reach
\* service_dispatcher::start.
OneApplicationRegistered ==
    LET set == {i \in 1..MaxApps :
                    scm.callers[i] \in {"set", "dispatching", "refused"}}
    IN  /\ Cardinality(set) <= 1
        /\ (\E i \in 1..MaxApps : scm.callers[i] # "idle") =>
               set = {scm.owner}
        /\ scm.dispatchers <= 1
        /\ scm.dispatchers = 1 => \E i \in set : scm.callers[i] # "set"
        /\ \A i \in 1..MaxApps :
               scm.callers[i] = "failed" => scm.owner \notin {0, i}

\* the second application was registered first, the first was turned down
SecondRegistrationFailed ==
    /\ scm.owner = 2
    /\ scm.callers[1] = "failed"
    /\ scm.callers[2] = "dispatching"
    /\ scm.pc = "returned"

\* C26: a second shutdown signal is ignored without a sound and is never
\* fatal, whenever it arrives: the handler of the interrupt does not panic,
\* and the workload is stopped once.
SecondSignalIgnored ==
    /\ ~driver.panicked
    /\ called.stops <= 1

\* C27: the handler answers Interrogate with NoError and Stop with NoError,
\* whether or not the message could be sent, and every other control with
\* NotImplemented; only a Stop puts a message on the shutdown channel, and
\* just one.
ControlAnswers ==
    /\ [](scm.reply.control # "-" =>
              /\ scm.reply.control = "Interrogate" =>
                     scm.reply.result = "NoError" /\ ~scm.reply.forwarded
              /\ scm.reply.control = "Stop" => scm.reply.result = "NoError"
              /\ scm.reply.control \notin {"Interrogate", "Stop"} =>
                     /\ scm.reply.result = "NotImplemented"
                     /\ ~scm.reply.forwarded)
    /\ [][scm'.controls # scm.controls =>
              /\ scm'.rx = scm.rx + (IF scm'.reply.forwarded THEN 1 ELSE 0)
              /\ (scm'.reply.control = "Stop" /\ scm.pc = "wait") =>
                     scm'.reply.forwarded]_vars

\* a Stop that could not be forwarded was answered NoError
StopAnsweredWhenForwardingFailed ==
    /\ scm.reply = [control |-> "Stop", result |-> "NoError",
                    forwarded |-> FALSE]
    /\ scm.pc = "stop"

\* C28: where there is no dispatcher, run_service(app, true) hands the
\* application on once, to run_service(app, false), and from there the run
\* is the console driver's: two run_service calls and no more, the console
\* branch always runs with service_mode false, and start, wait and stop
\* follow as in a run that began with false, to the same result.
ServiceModeRunsConsoleDriver ==
    /\ driver.depth <= 2
    /\ driver.pc \notin {"none", "hello", "entry"} =>
           /\ ~driver.service_mode
           /\ driver.depth = IF driver.sent[1] = "service" THEN 2 ELSE 1
    /\ (driver.sent # <<>> /\ driver.result # Err("SetHandlerError")) =>
           /\ Len(driver.sent) <= 6
           /\ Tail(driver.sent) =
                  SubSeq(<<"starting", "running", "stopping", "quitting",
                           "goodbye">>, 1, Len(driver.sent) - 1)
    /\ driver.pc = "exit" =>
           driver.result \in {Ok, Err("SetHandlerError")}

\* a run that began with service_mode true has gone through the console
\* driver and is over
ServiceModeRunDone ==
    /\ driver.pc = "exit"
    /\ driver.depth = 2
    /\ driver.result = Ok
    /\ driver.sent = <<"service", "starting", "running", "stopping",
                       "quitting", "goodbye">>

\* C29: arg, display_name, description, set_user, set_password and
\* set_group turn the empty string down with BadServiceSpec and give no spec
\* back, and take every other string; so the spec a caller holds after
\* builder calls that all returned Ok has no empty string among its
\* arguments nor as display name, description, user, password or group.
BuilderRejectsEmpty ==
    /\ built.call.op \in {"arg", "display_name", "description", "set_user",
                          "set_password", "set_group"} =>
           IF built.call.value = ""
           THEN built.call.result = BadServiceSpec /\ ~built.held
           ELSE built.call.result = Ok /\ built.held
    /\ built.held =>
           /\ \A i \in 1..Len(built.spec.args) : built.spec.args[i] # ""
           /\ <<"">> \notin {built.spec.display_name, built.spec.description,
                             built.spec.user, built.spec.password,
                             built.spec.group}

\* set_password("") was turned down on a spec that had a user already
EmptyPasswordRejected ==
    /\ built.call.op = "set_password"
    /\ built.call.value = ""
    /\ built.call.result = BadServiceSpec
    /\ built.spec.user = <<"a">>
    /\ ~built.held

\* C30: UniServiceManager::new with the empty name returns
\* InvalidNameOrPrefix and runs no platform command, no backend is made; with
\* any other name it returns what the backend's constructor returned.
NewChecksName ==
    built.call.op = "new" =>
        IF built.call.value = ""
        THEN /\ built.call.result = Err("InvalidNameOrPrefix")
             /\ built.call.commands = 0
        ELSE /\ built.call.result = built.call.made
             /\ built.call.commands = 1

\* new("") on a system whose service manager would have answered
EmptyNameRejected ==
    /\ built.call.op = "new"
    /\ built.call.value = ""
    /\ built.call.made = Ok
    /\ built.call.result = Err("InvalidNameOrPrefix")

\* C31: the process-invocation shim of every backend classifies a child
\* process alike: a tool that could not be run yields IoError, an output that
\* is not UTF-8 yields BadUtf8, a non-zero exit status with a decodable
\* standard error yields BadExitStatus, and success is returned only for exit
\* status zero with a UTF-8 output.
ShimsClassifyAlike ==
    query.backend # "none" =>
        \A i \in 1..Len(query.children) :
            LET c == query.children[i]
                r == CASE query.backend = "systemd" -> system_ctl(c)
                       [] query.backend = "launchd" -> launch_ctl(c)
                       [] query.backend = "sc" -> sc(c)
            IN  /\ ~c.spawned => r = Err("IoError")
                /\ (c.spawned /\ ~c.utf8) => r = Err("BadUtf8")
                /\ (c.spawned /\ c.utf8 /\ c.code # 0) =>
                       r = Err("BadExitStatus")
                /\ r.kind \in {"Ok", "OkOutput"} =>
                       c.spawned /\ c.code = 0 /\ c.utf8

\* the call i of the run reached the backend, and succeeded
Reached(i, op) == trace[i].op = op /\ trace[i].dispatched
Succeeded(i, op) == Reached(i, op) /\ trace[i].result = Ok

\* C32 as stated: backend start is dispatched only after the service was
\* observed Stopped, backend stop only after Running, backend uninstall only
\* after Stopped; and in a run where all four operations succeed, install
\* precedes start, start precedes stop and stop precedes uninstall.
LifecycleOrder ==
    /\ \A i \in 1..Len(trace) :
           /\ Reached(i, "start") => trace[i].observed = OkStatus("Stopped")
           /\ Reached(i, "stop") => trace[i].observed = OkStatus("Running")
           /\ Reached(i, "uninstall") => trace[i].observed = OkStatus("Stopped")
    /\ (\A op \in {"install", "start", "stop", "uninstall"} :
            \E i \in 1..Len(trace) : Succeeded(i, op)) =>
           \A i \in 1..Len(trace) :
               /\ Succeeded(i, "start") =>
                      \E j \in 1..(i - 1) : Succeeded(j, "install")
               /\ Succeeded(i, "stop") =>
                      \E j \in 1..(i - 1) : Succeeded(j, "start")
               /\ Succeeded(i, "uninstall") =>
                      \E j \in 1..(i - 1) : Succeeded(j, "stop")

\* C32 amended: the gates as stated; and in a run whose first call observed
\* NotInstalled, a dispatched start or uninstall is preceded by a dispatched
\* install and a dispatched stop by a successful start.
LifecycleOrderFromNotInstalled ==
    /\ \A i \in 1..Len(trace) :
           /\ Reached(i, "install") =>
                  trace[i].observed = OkStatus("NotInstalled")
           /\ Reached(i, "start") => trace[i].observed = OkStatus("Stopped")
           /\ Reached(i, "stop") => trace[i].observed = OkStatus("Running")
           /\ Reached(i, "uninstall") => trace[i].observed = OkStatus("Stopped")
    /\ (trace # <<>> /\ trace[1].observed = OkStatus("NotInstalled")) =>
           \A i \in 1..Len(trace) :
               /\ (Reached(i, "start") \/ Reached(i, "uninstall")) =>
                      \E j \in 1..(i - 1) : Reached(j, "install")
               /\ Reached(i, "stop") =>
                      \E j \in 1..(i - 1) : Succeeded(j, "start")

\* from NotInstalled the four calls were made in lifecycle order and succeeded
LifecycleOrderRun ==
    /\ Made(<<"install", "start", "stop", "uninstall">>)
    /\ trace[1].observed = OkStatus("NotInstalled")
    /\ \A i \in 1..4 : trace[i].result = Ok /\ trace[i].dispatched

\* sc query said that no service of the queried name exists
SaidAbsent(c) == c.spawned /\ c.code = 1060 /\ c.utf8

\* C33: status() of the sc backend queries the instance name first (the
\* plain name for a system service) and queries the template name only for a
\* user service whose instance was reported NotInstalled; the status of the
\* template is then the result, and NotInstalled is reported only when no
\* queried name exists.
ScStatusFallsBackToTemplate ==
    query.backend = "sc" =>
        /\ Len(query.children) \in {1, 2}
        /\ Len(query.children) = 2 <=>
               (query.luid /\ SaidAbsent(query.children[1]))
        /\ Len(query.children) = 2 =>
               query.result = raw_status(query.children[2])
        /\ Len(query.children) = 1 =>
               query.result = raw_status(query.children[1])
        /\ query.result = OkStatus("NotInstalled") =>
               \A i \in 1..Len(query.children) : SaidAbsent(query.children[i])

\* a user service without an instance, its template stopped
FreshUserServiceReportsTemplate ==
    /\ query.backend = "sc"
    /\ query.luid
    /\ Len(query.children) = 2
    /\ query.children[1].code = 1060
    /\ query.children[2].code = 0
    /\ query.children[2].output = "STOPPED"
    /\ query.result = OkStatus("Stopped")

\* C34: uninstall of the sc backend.  For a user service the instance is
\* queried first and deleted only if it exists, and the template is deleted
\* after that; when the query or the deletion of the instance fails, the
\* template is not deleted and the error is returned.  A system service
\* deletes only its one entry.
ScUninstallDeletesInstanceFirst ==
    [][(/\ host.backend = "sc"
        /\ round'.ran # <<>>
        /\ host'.instance => host.instance) =>
           LET ran == round'.ran
               n == Len(ran)
           IN  /\ ~host.user => ran = <<"delete">>
               /\ host.user =>
                      /\ ran[1] = "query instance"
                      /\ n <= 3
                      /\ (host.instance /\ n >= 2) =>
                             ran[2] = "delete instance"
                      /\ (~host.instance /\ n >= 2) => ran = <<ran[1], "delete">>
                      /\ n = 3 => ran[3] = "delete"
               /\ (host.instance /\ ~host'.instance) =>
                      \E i \in 1..n : ran[i] = "delete instance"
               /\ (host.registered /\ ~host'.registered) =>
                      /\ ran[n] = "delete"
                      /\ round'.result = Ok
                      /\ ~host'.instance
               /\ ran[n] # "delete" =>
                      /\ round'.result # Ok
                      /\ host' = host]_vars

\* the instance and the template of a user service were deleted, in this order
UserServiceUninstalled ==
    /\ host.backend = "sc"
    /\ host.user
    /\ round.ran = <<"query instance", "delete instance", "delete">>
    /\ round.result = Ok
    /\ ~host.instance
    /\ ~host.registered

\* C35: stop() of a started adapter returns Ok whenever the worker function
\* returns Ok, however the worker's exit and stop() interleave.
StopOkWheneverWorkerOk ==
    (/\ called.op = "stop"
     /\ called.before = "Running"
     /\ called.result # NoResult
     /\ thread.result = "Ok") =>
        called.result = Ok

\* C36: of two install calls that two controllers make at the same time for
\* a service that is not installed, one reaches the backend and the other
\* returns AlreadyInstalled (the status queries answered, a spec the rules
\* accept, and no backend install failing).
ConcurrentInstallDispatchedOnce ==
    (/\ Len(trace) = 2
     /\ \A i \in {1, 2} :
            /\ trace[i].op = "install"
            /\ trace[i].result # Dispatch
            /\ IsStatus(trace[i].observed)
            /\ trace[i].dispatched => trace[i].result = Ok
            /\ trace[i].result # BadServiceSpec
     /\ trace[1].observed = OkStatus("NotInstalled")
     /\ \E i \in {1, 2} : trace[i].dispatched) =>
        \E i \in {1, 2} :
            /\ trace[i].dispatched
            /\ ~trace[3 - i].dispatched
            /\ trace[3 - i].result = AlreadyInstalled

\* C37: an install that returns an error leaves no service file and no
\* registration behind: the service is still not installed, and a retried
\* install is not rejected.
FailedInstallLeavesNoResidue ==
    [][(~installed(host) /\ round'.phase = "failed") =>
           /\ host'.file = host.file
           /\ host'.registered = host.registered
           /\ ~installed(host')]_vars

\* C38: under the dispatcher, when Stopped is reported after app.start()
\* succeeded, app.stop() has been called and has returned: the workload that
\* app.start() started runs no more.
StoppedOnlyAfterAppStop ==
    (/\ scm.worker # "none"
     /\ \E i \in 1..Len(scm.reported) : scm.reported[i] = "Stopped") =>
        /\ scm.stops >= 1
        /\ scm.worker = "joined"

\* C39: a failed status poll does not end wait_for_status before the
\* timeout.  A call returns an error only after the timeout, Ok only on a poll
\* that observed the target, and TimeoutError(k) exactly when its last poll
\* failed with k.  A poll made while the platform is at the target that does
\* not return Ok is a failed one: it is followed by the sleep when the time is
\* not up, and returns TimeoutError when it is.
WaitSurvivesFailedPoll ==
    /\ [][(pc = "poll" /\ pc' = "idle") =>
              /\ last'.result # Ok => last'.elapsed > last'.timeout
              /\ last'.result = Ok => last'.observed = OkStatus(desired_status)
              /\ ~IsStatus(last'.observed) =>
                     last'.result = TimeoutError(last'.observed.kind)
              /\ last'.result.kind = "TimeoutError" =>
                     ~IsStatus(last'.observed)]_vars
    /\ [][(/\ pc = "poll"
           /\ pc' # "poll"
           /\ platform = desired_status
           /\ ~(pc' = "idle" /\ last'.result = Ok)) =>
              \/ pc' = "sleep" /\ elapsed' <= timeout
              \/ /\ pc' = "idle"
                 /\ last'.result.kind = "TimeoutError"
                 /\ last'.elapsed > last'.timeout]_vars

\* wait_for_status(NotInstalled) of a service that is not installed, which
\* nothing installs meanwhile, has slept and then returned Ok: a poll before
\* the sleep failed, the poll after it observed the target
WaitOkAfterFailedPoll ==
    /\ last.op = "wait"
    /\ last.arg = "NotInstalled"
    /\ platform = "NotInstalled"
    /\ last.slept > 0
    /\ last.result = Ok

\* C40: a second start(), which fails, changes neither the adapter nor its
\* worker thread; a stop() made after it on a worker that still runs signals
\* the worker and joins it.
FailedStartLeavesAdapter ==
    /\ [][(/\ called'.op = "start"
           /\ called'.starts = called.starts + 1
           /\ called.starts >= 1) =>
              /\ called'.result # Ok
              /\ app' = app
              /\ thread' = thread]_vars
    /\ []((/\ called.op = "stop"
           /\ called.starts = 2
           /\ called.stops = 1
           /\ called.before = "Running"
           /\ ~called.finished
           /\ called.result # Err("SendError")) =>
              /\ called.signalled
              /\ thread.inbox = 1
              /\ thread.spawned = 1
              /\ IF called.result = NoResult THEN app.joining
                 ELSE called.joined /\ called.result = join_result(thread.result))

\* start(), a second start() that failed, then stop(), which signalled the
\* worker of the first start and joined it
StoppedAfterFailedStart ==
    /\ called.op = "stop"
    /\ called.starts = 2
    /\ called.stops = 1
    /\ called.signalled
    /\ called.joined
    /\ called.result = Ok
    /\ thread.spawned = 1

====
